---- MODULE Spec2Model ----
(***************************************************************************)
(* Verification model of the network-analysis core of PwrSysPro:           *)
(*   - the topology graph engine   (server/utils/phase2/topology.py)       *)
(*   - the Newton-Raphson solver   (server/utils/phase3/load_flow.py)      *)
(*   - the integrated service      (server/utils/phase3/integrated_calc.py)*)
(*                                                                         *)
(* Each Python object is one variable holding a record of the object's     *)
(* fields; each method is an operator from the object (and the call's      *)
(* arguments) to the object after the call or to the returned value, and   *)
(* one action applies it.                                                  *)
(*                                                                         *)
(* Conventions.  Node ids are issued in insertion order, so the id of a    *)
(* node is its position in the nodes dict (Python dicts iterate in         *)
(* insertion order).  A bus name f"BUS-{voltage}kV-{counter:02d}" is the   *)
(* pair <<voltage, counter>>; None is <<>>.  Voltages are in units of      *)
(* 0.1 kV.                                                                 *)
(***************************************************************************)
EXTENDS Integers, Sequences, FiniteSets, TLC

\* ------------------------------------------------------------------ bounds
MaxNodes == 3        \* nodes of a graph under mutation
MaxEdges == 2        \* edges stored at once, with the analysis passes
MaxGraphEdges == 3   \* edges stored at once, mutation only
MaxLoopNodes == 5    \* nodes of a graph whose nodes have at most one outgoing edge
MaxBuses == 3        \* buses handed to the load-flow solver
MaxIter == 3         \* iteration limits handed to the solver; latest iteration
                     \* at which a mismatch is taken to fall below the tolerance
MaxFeederNodes == 4  \* nodes of a feeder handed to the analysis
MaxFeederEdges == 3  \* cables of a feeder handed to the analysis

\* NewtonRaphsonLoadFlow.__init__: max_iterations: int = 20
DefaultMaxIterations == 20

\* Every id a node may have (the adjacency dicts are defaultdicts over them)
NodeIds == 1..(IF MaxNodes > MaxLoopNodes THEN MaxNodes ELSE MaxLoopNodes)

Voltages == {4, 110}
BusTypes == {"Bus", "Busbar", "Switchgear"}

None == <<>>
NoError == "no exception"

VARIABLES
    topology,   \* the TopologyGraph object
    lastOp,     \* name of the most recent call on the graph
    identifyCalls, \* identify_buses calls since the last other call, counted to 2
    levelsFresh,\* calculate_network_levels ran since the graph last changed
    hadDangling,\* some add_edge named an endpoint that was not a node yet
    returned,   \* value returned by the most recent call (None when it returns nothing)
    raised,     \* exception the most recent call ended with (NoError when it returned)
    solver,     \* the NewtonRaphsonLoadFlow object
    solved,     \* how the most recent solve() ended, also inside analyze_network
    service,    \* the IntegratedCalculationService object
    used,       \* voltage levels handed to service.pu_system since it was made
    args        \* arguments of the most recent call, where a property reads them

vars == <<topology, lastOp, identifyCalls, levelsFresh, hadDangling, returned,
          raised, solver, solved, service, used, args>>

\* ----------------------------------------------------------------- helpers
Range(s) == {s[i] : i \in DOMAIN s}

Count(s, x) == Cardinality({i \in DOMAIN s : s[i] = x})

\* list.index(x): the first position holding x
IndexOf(s, x) == CHOOSE i \in DOMAIN s : s[i] = x /\ \A j \in 1..(i - 1) : s[j] # x

\* list.remove(x): drops the first occurrence of x
ListRemove(s, x) ==
    LET i == IndexOf(s, x)
    IN  SubSeq(s, 1, i - 1) \o SubSeq(s, i + 1, Len(s))

\* ---------------------------------------------------------- TopologyGraph
TopologyNode(t, v) ==
    [type |-> t, voltage_level |-> v, upstream_nodes |-> <<>>,
     downstream_nodes |-> <<>>, level |-> 0, bus_name |-> None]

TopologyEdge(s, t) == [source_id |-> s, target_id |-> t]

TopologyGraph ==
    [nodes |-> <<>>, edges |-> <<>>,
     adjacency |-> [n \in NodeIds |-> <<>>],
     reverse_adjacency |-> [n \in NodeIds |-> <<>>],
     buses |-> <<>>, sources |-> <<>>]

HasNode(g, n) == n \in DOMAIN g.nodes

add_node(g, t, v) ==
    LET id == Len(g.nodes) + 1
    IN  [g EXCEPT !.nodes = Append(@, TopologyNode(t, v)),
                  !.sources = IF t = "Source" THEN Append(@, id) ELSE @]

add_edge_one_sided(g, e, s, t) ==
    [g EXCEPT !.edges = (e :> TopologyEdge(s, t)) @@ @,
              !.adjacency[s] = Append(@, t),
              !.nodes = IF HasNode(g, s) /\ HasNode(g, t)
                        THEN [@ EXCEPT ![s].downstream_nodes = Append(@, t),
                                       ![t].upstream_nodes = Append(@, s)]
                        ELSE @]

add_edge(g, e, s, t) ==
    [g EXCEPT !.edges = (e :> TopologyEdge(s, t)) @@ @,
              !.adjacency[s] = Append(@, t),
              !.reverse_adjacency[t] = Append(@, s),
              !.nodes = IF HasNode(g, s) /\ HasNode(g, t)
                        THEN [@ EXCEPT ![s].downstream_nodes = Append(@, t),
                                       ![t].upstream_nodes = Append(@, s)]
                        ELSE @]

remove_edge(g, e) ==
    IF e \notin DOMAIN g.edges THEN g
    ELSE
    LET s == g.edges[e].source_id
        t == g.edges[e].target_id
        n1 == IF HasNode(g, s) /\ t \in Range(g.nodes[s].downstream_nodes)
              THEN [g.nodes EXCEPT ![s].downstream_nodes = ListRemove(@, t)]
              ELSE g.nodes
        n2 == IF HasNode(g, t) /\ s \in Range(n1[t].upstream_nodes)
              THEN [n1 EXCEPT ![t].upstream_nodes = ListRemove(@, s)]
              ELSE n1
    IN  [g EXCEPT !.adjacency[s] = IF t \in Range(@) THEN ListRemove(@, t) ELSE @,
                  !.reverse_adjacency[t] = IF s \in Range(@) THEN ListRemove(@, s) ELSE @,
                  !.nodes = n2,
                  !.edges = [x \in (DOMAIN g.edges) \ {e} |-> g.edges[x]]]

\* calculate_network_levels: the for loop over adjacency.get(node_id, [])
RECURSIVE enqueue_downstream(_, _, _, _)
enqueue_downstream(down, level, queue, visited) ==
    IF down = <<>> THEN [queue |-> queue, visited |-> visited]
    ELSE IF Head(down) \notin visited
         THEN enqueue_downstream(Tail(down), level,
                                 Append(queue, <<Head(down), level + 1>>),
                                 visited \cup {Head(down)})
         ELSE enqueue_downstream(Tail(down), level, queue, visited)

update_level_always(ns, node_id, level) ==
    IF node_id \in DOMAIN ns THEN [ns EXCEPT ![node_id].level = level] ELSE ns

\* "Update level if this is a shorter path"
update_level(ns, node_id, level) ==
    IF node_id \in DOMAIN ns /\ (ns[node_id].level = -1 \/ level < ns[node_id].level)
    THEN [ns EXCEPT ![node_id].level = level]
    ELSE ns

\* calculate_network_levels: the while loop of one source's BFS
RECURSIVE bfs_levels(_, _, _, _)
bfs_levels(ns, adj, queue, visited) ==
    IF queue = <<>> THEN ns
    ELSE LET node_id == Head(queue)[1]
             level == Head(queue)[2]
             nxt == enqueue_downstream(adj[node_id], level, Tail(queue), visited)
         IN  bfs_levels(update_level(ns, node_id, level), adj, nxt.queue, nxt.visited)

\* calculate_network_levels: the loop over self.sources
RECURSIVE bfs_each_source(_, _, _)
bfs_each_source(ns, adj, srcs) ==
    IF srcs = <<>> THEN ns
    ELSE bfs_each_source(bfs_levels(ns, adj, <<<<Head(srcs), 0>>>>, {Head(srcs)}),
                         adj, Tail(srcs))

calculate_network_levels(g) ==
    LET reset == [i \in DOMAIN g.nodes |->
                    IF g.nodes[i].type # "Source"
                    THEN [g.nodes[i] EXCEPT !.level = -1]
                    ELSE g.nodes[i]]
    IN  [g EXCEPT !.nodes = bfs_each_source(reset, g.adjacency, g.sources)]

IsBusType(t) == t \in BusTypes

any_voltage_joins(g, adj_id, voltage) ==
    /\ HasNode(g, adj_id)
    /\ IsBusType(g.nodes[adj_id].type)

\* _find_connected_bus_nodes: "Only include if same voltage and bus-type component"
joins_bus(g, adj_id, voltage) ==
    /\ HasNode(g, adj_id)
    /\ g.nodes[adj_id].voltage_level = voltage
    /\ IsBusType(g.nodes[adj_id].type)

\* _find_connected_bus_nodes: the for loop over the adjacent nodes
RECURSIVE expand_adjacent(_, _, _, _, _)
expand_adjacent(g, adjacent, voltage, queue, connected) ==
    IF adjacent = <<>> THEN [queue |-> queue, connected |-> connected]
    ELSE LET adj_id == Head(adjacent)
         IN  IF adj_id \notin connected /\ joins_bus(g, adj_id, voltage)
             THEN expand_adjacent(g, Tail(adjacent), voltage,
                                  Append(queue, adj_id), connected \cup {adj_id})
             ELSE expand_adjacent(g, Tail(adjacent), voltage, queue, connected)

\* _find_connected_bus_nodes: the while loop
RECURSIVE bfs_bus(_, _, _, _)
bfs_bus(g, voltage, queue, connected) ==
    IF queue = <<>> THEN connected
    ELSE LET node_id == Head(queue)
             adjacent == g.adjacency[node_id] \o g.reverse_adjacency[node_id]
             nxt == expand_adjacent(g, adjacent, voltage, Tail(queue), connected)
         IN  bfs_bus(g, voltage, nxt.queue, nxt.connected)

find_connected_bus_nodes(g, start_id, voltage) ==
    bfs_bus(g, voltage, <<start_id>>, {start_id})

\* identify_buses: the loop over self.nodes.items(), from position i on
RECURSIVE identify_from(_, _, _, _)
identify_from(g, i, bus_counter, processed) ==
    IF i > Len(g.nodes) THEN g
    ELSE IF i \in processed \/ ~IsBusType(g.nodes[i].type)
    THEN identify_from(g, i + 1, bus_counter, processed)
    ELSE LET bus_name == <<g.nodes[i].voltage_level, bus_counter>>
             bus_nodes == find_connected_bus_nodes(g, i, g.nodes[i].voltage_level)
             named == [n \in DOMAIN g.nodes |->
                         IF n \in bus_nodes
                         THEN [g.nodes[n] EXCEPT !.bus_name = bus_name]
                         ELSE g.nodes[n]]
             g2 == [g EXCEPT !.buses = (bus_name :> bus_nodes) @@ @,
                             !.nodes = named]
         IN  identify_from(g2, i + 1, bus_counter + 1,
                           processed \cup (bus_nodes \cap DOMAIN g.nodes))

identify_buses_keep_counting(g) ==
    identify_from(g, 1, Cardinality(DOMAIN g.buses) + 1, {})

identify_buses(g) ==
    identify_from([g EXCEPT !.buses = <<>>], 1, 1, {})

found_cycle_whole_path(path, neighbor) ==
    path \o <<neighbor>>

\* detect_loops, "Found a cycle": loop = path[cycle_start:] + [neighbor]
found_cycle(path, neighbor) ==
    SubSeq(path, IndexOf(path, neighbor), Len(path)) \o <<neighbor>>

\* detect_loops.dfs_cycle; st holds the closure's visited, path and loops.
\* dfs_neighbors is the for loop over adjacency.get(node_id, []) from
\* position i on; parent 0 is None.  st.on_stack is a record kept beside
\* them: for every edge the loop examines whose target is visited and still
\* in path, the slice of path from the target on.
RECURSIVE dfs_cycle(_, _, _, _)
RECURSIVE dfs_neighbors(_, _, _, _, _)
dfs_neighbors(adj, node_id, parent, i, st) ==
    IF i > Len(adj[node_id]) THEN st
    ELSE LET neighbor == adj[node_id][i]
             seen == IF neighbor \in st.visited /\ neighbor \in Range(st.path)
                     THEN [st EXCEPT !.on_stack =
                              Append(@, SubSeq(st.path, IndexOf(st.path, neighbor),
                                               Len(st.path)))]
                     ELSE st
             st2 == IF neighbor \notin st.visited
                    THEN dfs_cycle(adj, neighbor, node_id, st)
                    ELSE IF neighbor # parent /\ neighbor \in Range(st.path)
                    THEN [seen EXCEPT !.loops = Append(@, found_cycle(st.path, neighbor))]
                    ELSE seen
         IN  dfs_neighbors(adj, node_id, parent, i + 1, st2)

dfs_cycle(adj, node_id, parent, st) ==
    LET entered == [st EXCEPT !.visited = @ \cup {node_id},
                              !.path = Append(@, node_id)]
        after == dfs_neighbors(adj, node_id, parent, 1, entered)
    IN  [after EXCEPT !.path = SubSeq(@, 1, Len(@) - 1)]

\* detect_loops: "Check from each source"
RECURSIVE dfs_each_source(_, _, _)
dfs_each_source(adj, srcs, st) ==
    IF srcs = <<>> THEN st
    ELSE IF Head(srcs) \notin st.visited
         THEN dfs_each_source(adj, Tail(srcs), dfs_cycle(adj, Head(srcs), 0, st))
         ELSE dfs_each_source(adj, Tail(srcs), st)

detect_loops(g) ==
    dfs_each_source(g.adjacency, g.sources,
                    [visited |-> {}, path |-> <<>>, loops |-> <<>>,
                     on_stack |-> <<>>]).loops

\* The edges detect_loops examined with their target on the path, in order,
\* each as the slice of the path from the target to the node examined
edges_to_path(g) ==
    dfs_each_source(g.adjacency, g.sources,
                    [visited |-> {}, path |-> <<>>, loops |-> <<>>,
                     on_stack |-> <<>>]).on_stack

\* An entry of validate_topology's list; node 0 for the entry about the sources
Issue(sev, k, n) == [severity |-> sev, kind |-> k, node |-> n]

\* The ids of S in the order of self.nodes.items()
SelectIds(ns, S) ==
    LET F[i \in 0..Len(ns)] ==
            IF i = 0 THEN <<>>
            ELSE IF i \in S THEN Append(F[i - 1], i) ELSE F[i - 1]
    IN  F[Len(ns)]

Tag(ids, sev, k) == [i \in DOMAIN ids |-> Issue(sev, k, ids[i])]

is_unreachable_level0(node) == node.type # "Source" /\ node.level = 0

\* validate_topology: "Check for unreachable nodes (not connected to any source)"
is_unreachable(node) == node.type # "Source" /\ node.level = -1

validate_topology(g) ==
    LET dangling == {i \in DOMAIN g.nodes :
                        /\ g.nodes[i].type \notin {"Source"}
                        /\ g.nodes[i].upstream_nodes = <<>>
                        /\ g.nodes[i].downstream_nodes = <<>>}
        unreachable == {i \in DOMAIN g.nodes : is_unreachable(g.nodes[i])}
        voltage_levels == {g.nodes[g.sources[k]].voltage_level : k \in DOMAIN g.sources}
    IN  Tag(SelectIds(g.nodes, dangling), "Warning", "no_connections")
        \o Tag(SelectIds(g.nodes, unreachable), "Error", "not_connected_to_source")
        \o (IF Len(g.sources) > 1 /\ Cardinality(voltage_levels) > 1
            THEN <<Issue("Warning", "sources_at_different_voltages", 0)>>
            ELSE <<>>)

\* get_upstream_nodes, get_downstream_nodes: the for loop over the parents
\* (children) of the current node
RECURSIVE collect_unvisited(_, _, _, _)
collect_unvisited(next, queue, visited, found) ==
    IF next = <<>> THEN [queue |-> queue, visited |-> visited, found |-> found]
    ELSE IF Head(next) \notin visited
         THEN collect_unvisited(Tail(next), Append(queue, Head(next)),
                                visited \cup {Head(next)}, Append(found, Head(next)))
         ELSE collect_unvisited(Tail(next), queue, visited, found)

\* get_upstream_nodes, get_downstream_nodes: the while loop over the queue
RECURSIVE bfs_collect(_, _, _, _)
bfs_collect(adj, queue, visited, found) ==
    IF queue = <<>> THEN found
    ELSE LET step == collect_unvisited(adj[Head(queue)], Tail(queue), visited, found)
         IN  bfs_collect(adj, step.queue, step.visited, step.found)

get_upstream_nodes(g, node_id) ==
    IF ~HasNode(g, node_id) THEN <<>>
    ELSE bfs_collect(g.reverse_adjacency, <<node_id>>, {node_id}, <<>>)

get_downstream_nodes(g, node_id) ==
    IF ~HasNode(g, node_id) THEN <<>>
    ELSE bfs_collect(g.adjacency, <<node_id>>, {node_id}, <<>>)

\* find_path: the for loop over adjacency.get(node_id, []); a queue entry is
\* <<node_id, path>>
RECURSIVE enqueue_paths(_, _, _, _)
enqueue_paths(neighbors, path, queue, visited) ==
    IF neighbors = <<>> THEN [queue |-> queue, visited |-> visited]
    ELSE IF Head(neighbors) \notin visited
         THEN enqueue_paths(Tail(neighbors), path,
                            Append(queue, <<Head(neighbors), Append(path, Head(neighbors))>>),
                            visited \cup {Head(neighbors)})
         ELSE enqueue_paths(Tail(neighbors), path, queue, visited)

\* find_path: the while loop over the queue
RECURSIVE bfs_path(_, _, _, _)
bfs_path(adj, to_id, queue, visited) ==
    IF queue = <<>> THEN None
    ELSE LET node_id == Head(queue)[1]
             path == Head(queue)[2]
             next == enqueue_paths(adj[node_id], path, Tail(queue), visited)
         IN  IF node_id = to_id THEN path
             ELSE bfs_path(adj, to_id, next.queue, next.visited)

find_path(g, from_id, to_id) ==
    IF ~HasNode(g, from_id) \/ ~HasNode(g, to_id) THEN None
    ELSE bfs_path(g.adjacency, to_id, <<<<from_id, <<from_id>>>>>>, {from_id})

\* ------------------------------------------------------ load-flow solver
\* A bus is its BusType and buses is the dict in insertion order.  The
\* specified and calculated powers, the voltages and the Y-bus are floating
\* point data; of them the model keeps what solve() decides from them, whether
\* the largest mismatch of an iteration is below the tolerance.  That is an
\* fixed by the data the solver was made with (solve() starts from the flat
\* start and reads the specified values and the Y-bus only): first_small is
\* the iteration at which it first is, 0 for never.  p_calc is what
\* _calculate_power returns for each bus in the last pass of the loop, in
\* units of 0.1 p.u.  The voltages are the iterate they belong to: the number
\* of _update_state calls made from the flat start.  Reactive power is held
\* by code of the same shape and is left out.  y_bus is n_buses x n_buses and
\* bus_index numbers the buses.
LoadFlowBusTypes == {"SLACK", "PV", "PQ"}

\* A voltage magnitude or angle of the solver: the value it starts from and
\* the entries of delta_x added to it since, by their positions in delta_x
\* (counted from 1)
StateValue(start, added) == [start |-> start, added |-> added]

\* Bus: the calculated values as the dataclass makes them; voltage None is the
\* v_magnitude and v_angle given at construction.  calculated_from is the
\* iterate that p_calculated (and q_calculated) was computed from, None for
\* the 0.0 of the dataclass.
Bus == [voltage |-> None, p_calculated |-> 0,
        v_magnitude |-> StateValue("1.0", <<>>),
        v_angle |-> StateValue("0.0", <<>>),
        calculated_from |-> None]

NewtonRaphsonLoadFlow(buses, max_iterations, first_small, p_calc) ==
    [buses |-> buses,
     max_iterations |-> max_iterations,
     n_buses |-> Len(buses),
     n_pq |-> Count(buses, "PQ"),
     n_pv |-> Count(buses, "PV"),
     first_small |-> first_small,
     p_calc |-> p_calc,
     calculated |-> [i \in DOMAIN buses |-> Bus]]

LoadFlowResult(converged, iterations, total_gen_p, total_load_p, total_loss_p) ==
    [converged |-> converged, iterations |-> iterations,
     total_generation_p |-> total_gen_p,
     total_load_p |-> total_load_p,
     total_losses_p |-> total_loss_p]

\* sum(...) over the buses in dict order
RECURSIVE SumOver(_, _)
SumOver(values, k) == IF k = 0 THEN 0 ELSE SumOver(values, k - 1) + values[k]

compile_results_loss_is_generation(calculated, converged, iterations) ==
    LET total_gen_p == SumOver([i \in DOMAIN calculated |->
            IF calculated[i].p_calculated > 0
            THEN calculated[i].p_calculated ELSE 0], Len(calculated))
        total_load_p == SumOver([i \in DOMAIN calculated |->
            IF calculated[i].p_calculated < 0
            THEN -calculated[i].p_calculated ELSE 0], Len(calculated))
    IN  LoadFlowResult(converged, iterations, total_gen_p, total_load_p,
                       total_gen_p)

\* _compile_results: generation is the sum of the positive p_calculated, load
\* the sum of abs(p_calculated) of the negative ones, losses their difference
compile_results(calculated, converged, iterations) ==
    LET total_gen_p == SumOver([i \in DOMAIN calculated |->
            IF calculated[i].p_calculated > 0
            THEN calculated[i].p_calculated ELSE 0], Len(calculated))
        total_load_p == SumOver([i \in DOMAIN calculated |->
            IF calculated[i].p_calculated < 0
            THEN -calculated[i].p_calculated ELSE 0], Len(calculated))
    IN  LoadFlowResult(converged, iterations, total_gen_p, total_load_p,
                       total_gen_p - total_load_p)

\* _build_jacobian: the matrix is j_size x j_size, n_theta = n - 1, n_v = n_pq
j_size(self) == (self.n_buses - 1) + self.n_pq

\* _build_mismatch_vector: an entry for each bus that is not SLACK, then one
\* for each PQ bus
mismatch_size(self) ==
    Cardinality({i \in DOMAIN self.buses : self.buses[i] # "SLACK"}) + self.n_pq

\* solve, "Check convergence": max_mismatch < self.tolerance.  delta_p and
\* delta_q keep their zeros when every bus is SLACK.
below_tolerance(self, iteration) ==
    \/ \A i \in DOMAIN self.buses : self.buses[i] = "SLACK"
    \/ iteration = self.first_small

\* solve: the Newton-Raphson for loop, from the pass numbered iteration on.
\*   - np.max of an empty array raises ValueError;
\*   - np.linalg.solve raises ValueError when the mismatch vector does not
\*     have j_size entries; the try catches np.linalg.LinAlgError only;
\*   - the matrix of _build_jacobian is constant and strictly diagonally
\*     dominant (10.0 on the diagonal, -1.0 beside it), so it is never
\*     singular and the except branch is not taken.
\* p_calc_bound: whether the local p_calc was assigned.
RECURSIVE newton_raphson(_, _)
newton_raphson(self, iteration) ==
    IF iteration > self.max_iterations
    THEN [raised |-> NoError, converged |-> FALSE,
          iteration |-> iteration - 1, p_calc_bound |-> iteration > 1]
    ELSE IF self.n_buses = 0
    THEN [raised |-> "ValueError", converged |-> FALSE,
          iteration |-> iteration, p_calc_bound |-> TRUE]
    ELSE IF below_tolerance(self, iteration)
    THEN [raised |-> NoError, converged |-> TRUE,
          iteration |-> iteration, p_calc_bound |-> TRUE]
    ELSE IF j_size(self) # mismatch_size(self)
    THEN [raised |-> "ValueError", converged |-> FALSE,
          iteration |-> iteration, p_calc_bound |-> TRUE]
    ELSE newton_raphson(self, iteration + 1)

\* solve, "Initialize voltage vector": v and theta of every bus, np.ones and
\* np.zeros with the specified values of the slack and PV buses
flat_start(self) ==
    [i \in DOMAIN self.buses |->
        [v |-> StateValue(IF self.buses[i] \in {"SLACK", "PV"}
                          THEN "v_specified" ELSE "1.0", <<>>),
         theta |-> StateValue(IF self.buses[i] = "SLACK"
                              THEN "theta_specified" ELSE "0.0", <<>>)]]

\* _update_state, the two loops over the buses from bus i on, each with its
\* counter idx: theta[bus_idx] += delta_theta[idx] for the buses that are not
\* SLACK, v[bus_idx] += delta_v[idx] for the buses of v_types, with
\* delta_theta = delta_x[:n_theta] and delta_v = delta_x[n_theta:].  An entry
\* of delta_x is named by its position, counted from 1.
RECURSIVE corrected_from(_, _, _, _, _, _)
corrected_from(self, state, i, v_types, idx_theta, idx_v) ==
    IF i > Len(state) THEN <<>>
    ELSE LET n_theta == self.n_buses - 1
             turns == self.buses[i] # "SLACK"
             scales == self.buses[i] \in v_types
             bus == [v |-> IF scales
                           THEN StateValue(state[i].v.start,
                                    Append(state[i].v.added,
                                           n_theta + idx_v + 1))
                           ELSE state[i].v,
                     theta |-> IF turns
                               THEN StateValue(state[i].theta.start,
                                        Append(state[i].theta.added,
                                               idx_theta + 1))
                               ELSE state[i].theta]
         IN  <<bus>> \o corrected_from(self, state, i + 1, v_types,
                                       IF turns THEN idx_theta + 1
                                       ELSE idx_theta,
                                       IF scales THEN idx_v + 1 ELSE idx_v)

update_state_every_magnitude(self, state) ==
    corrected_from(self, state, 1, {"PV", "PQ"}, 0, 0)

\* _update_state: the buses that are not SLACK have their angle corrected, in
\* dict order, and the PQ buses their magnitude
update_state(self, state) == corrected_from(self, state, 1, {"PQ"}, 0, 0)

\* v and theta after k passes of the loop that reached _update_state
RECURSIVE state_after(_, _)
state_after(self, k) ==
    IF k = 0 THEN flat_start(self)
    ELSE update_state(self, state_after(self, k - 1))

\* solve, what the caller gets: the exception raised or the LoadFlowResult.
\* bus.p_calculated = p_calc[idx] reads the local p_calc: when no pass ran it
\* is unbound.  _compile_results reads the p_calculated stored in the buses.
solve_result(self) ==
    LET loop == newton_raphson(self, 1)
        powers == [i \in DOMAIN self.buses |->
                      [p_calculated |-> self.p_calc[i]]]
    IN  IF loop.raised # NoError
        THEN [raised |-> loop.raised, value |-> None]
        ELSE IF self.n_buses > 0 /\ ~loop.p_calc_bound
        THEN [raised |-> "UnboundLocalError", value |-> None]
        ELSE [raised |-> NoError,
              value |-> compile_results(powers, loop.converged, loop.iteration)]

\* solve: the loop, then "Store results in buses" and _compile_results.  The
\* loop leaves the voltages of the pass that met the tolerance, or those after
\* the update of the last pass.  When p_calc is unbound the first bus has its
\* voltage of the flat start assigned by then.
solve(self) ==
    LET loop == newton_raphson(self, 1)
        updates == IF loop.converged THEN loop.iteration - 1 ELSE loop.iteration
        state == state_after(self, updates)
        stored == [i \in DOMAIN self.buses |->
                      [voltage |-> updates, p_calculated |-> self.p_calc[i],
                       v_magnitude |-> state[i].v,
                       v_angle |-> state[i].theta,
                       calculated_from |-> loop.iteration - 1]]
        out == solve_result(self)
    IN  [self |-> IF loop.raised # NoError THEN self
                  ELSE IF out.raised # NoError
                  THEN [self EXCEPT !.calculated[1].voltage = 0,
                                    !.calculated[1].v_magnitude = state[1].v,
                                    !.calculated[1].v_angle = state[1].theta]
                  ELSE [self EXCEPT !.calculated = stored],
         raised |-> out.raised, value |-> out.value]

\* No solve() has run
NotSolved == [raised |-> NoError, value |-> None]

\* ----------------------------------------------------------- short circuit
\* A complex number is a record of two integers
Complex(re, im) == [re |-> re, im |-> im]
CZero == Complex(0, 0)
CAdd(a, b) == Complex(a.re + b.re, a.im + b.im)
CSub(a, b) == Complex(a.re - b.re, a.im - b.im)
Conj(a) == Complex(a.re, -a.im)

\* Currents and powers are real numbers with sqrt(3) and abs(z) in them: a
\* value is kept as its sign and its square, the square a fraction in lowest
\* terms, so that equal values are equal records
Abs(n) == IF n < 0 THEN -n ELSE n

RECURSIVE GCD(_, _)
GCD(a, b) == IF b = 0 THEN a ELSE GCD(b, a % b)

Ratio(n, d) == LET g == GCD(Abs(n), d) IN [num |-> n \div g, den |-> d \div g]

RatioMul(a, b) ==
    LET x == Ratio(a.num, b.den)
        y == Ratio(b.num, a.den)
    IN  [num |-> x.num * y.num, den |-> x.den * y.den]

RatioLess(a, b) == a.num * b.den < b.num * a.den

Root(sign, square) == [sign |-> sign, square |-> square]

\* factor * value, for a factor >= 0 given by its square
RootTimes(factor_square, value) ==
    IF factor_square.num = 0 THEN Root(0, Ratio(0, 1))
    ELSE Root(value.sign, RatioMul(factor_square, value.square))

RootLess(a, b) ==
    IF a.sign # b.sign THEN a.sign < b.sign
    ELSE IF a.sign = 1 THEN RatioLess(a.square, b.square)
    ELSE IF a.sign = -1 THEN RatioLess(b.square, a.square)
    ELSE FALSE

\* ShortCircuitParameters: voltage_kv in units of 0.1 kV, base_mva in MVA,
\* source_impedance in units of 0.05 p.u. (as every impedance handed to the
\* calculator), voltage_factor_c in units of 0.1
ShortCircuitParameters(voltage_kv, base_mva, source_impedance, voltage_factor_c) ==
    [voltage_kv |-> voltage_kv, base_mva |-> base_mva,
     source_impedance |-> source_impedance,
     voltage_factor_c |-> voltage_factor_c]

total_impedance_source_only(params, fault_impedance_pu) ==
    params.source_impedance

\* calculate_three_phase_fault: z_total_pu = source_impedance + fault_impedance_pu
total_impedance_pu(params, fault_impedance_pu) ==
    CAdd(params.source_impedance, fault_impedance_pu)

\* abs(z) ** 2
NormSquare(z) == z.re * z.re + z.im * z.im

\* _calculate_peak_factor: 1.0 when x == 0, else 1.02 + 0.98 * exp(-3 * r / x),
\* kept as the ratio r / x it is computed from (None for 1.0).  r / x of
\* z_total_ohms is that of z_total_pu, z_base being a positive real.
calculate_peak_factor(z_total) ==
    IF z_total.im = 0 THEN None
    ELSE IF z_total.im > 0 THEN Ratio(z_total.re, z_total.im)
    ELSE Ratio(-z_total.re, -z_total.im)

short_circuit_power_of_source_voltage(params, i_k3_initial_ka) ==
    RootTimes(Ratio(3 * params.voltage_factor_c * params.voltage_factor_c
                      * params.voltage_kv * params.voltage_kv, 10000),
              i_k3_initial_ka)

\* calculate_three_phase_fault: s_k3_mva = math.sqrt(3) * u_n * i_k3_initial_ka
short_circuit_power(params, i_k3_initial_ka) ==
    RootTimes(Ratio(3 * params.voltage_kv * params.voltage_kv, 100),
              i_k3_initial_ka)

\* calculate_three_phase_fault with motor_contribution None.
\*   z_base = u_n ** 2 * 1000 / base_mva raises ZeroDivisionError at
\*   base_mva = 0; i_k3_initial = c_u_n * 1000 / (sqrt(3) * abs(z_total_ohms))
\*   raises it when z_total_ohms = z_total_pu * z_base is zero.  In kA, with
\*   C = 10 c, U = 10 u_n and Z = 20 z_total_pu:
\*       i_k3_initial_ka = C * base_mva / (50 * U * sqrt(3) * abs(Z))
\*       z_total_ohms    = Z * U ** 2 / (2 * base_mva)
\*   mu = _calculate_decay_factor() is 1.0.
calculate_three_phase_fault(params, fault_impedance_pu) ==
    LET u_n == params.voltage_kv
        c == params.voltage_factor_c
        c_u_n == c * u_n
        z_total_pu == total_impedance_pu(params, fault_impedance_pu)
        q == Ratio(Abs(c) * params.base_mva, 50 * Abs(u_n))
        i_k3_initial_ka ==
            Root(IF c_u_n > 0 THEN 1 ELSE IF c_u_n < 0 THEN -1 ELSE 0,
                 RatioMul(RatioMul(q, q), Ratio(1, 3 * NormSquare(z_total_pu))))
    IN  IF params.base_mva = 0 \/ u_n = 0 \/ z_total_pu = CZero
        THEN [raised |-> "ZeroDivisionError", value |-> None]
        ELSE [raised |-> NoError,
              value |->
                [i_k3_initial |-> i_k3_initial_ka,
                 i_k3_peak |-> [kappa |-> calculate_peak_factor(z_total_pu),
                                current |-> RootTimes(Ratio(2, 1), i_k3_initial_ka)],
                 i_k3_breaking |-> i_k3_initial_ka,
                 i_k3_steady_state |-> i_k3_initial_ka,
                 i_dc |-> RootTimes(Ratio(2, 1), i_k3_initial_ka),
                 z_total |-> [re |-> Ratio(z_total_pu.re * u_n * u_n,
                                           2 * params.base_mva),
                              im |-> Ratio(z_total_pu.im * u_n * u_n,
                                           2 * params.base_mva)],
                 s_k3 |-> short_circuit_power(params, i_k3_initial_ka)]]

\* --------------------------------------------------- integrated service
\* Impedances, currents and the Y-bus are floating point data; the model
\* keeps the keys of the dicts the service builds, the exceptions its
\* arithmetic raises and the load-flow outcome.  The call modelled is the one
\* with an empty component_data: no edge has cable data, so impedances_pu is
\* empty and the Y-bus is the zero matrix, and a breaker has the default
\* rating.

\* IntegratedCalculationService.__init__: base_mva: float = 100.0
DefaultBaseMva == 100

PerUnitBase(voltage_kv, power_mva) ==
    [voltage_kv |-> voltage_kv, power_mva |-> power_mva]

PerUnitSystem(base_mva) == [base_mva |-> base_mva, voltage_bases |-> <<>>]

IntegratedCalculationService(base_mva) ==
    [base_mva |-> base_mva, pu_system |-> PerUnitSystem(base_mva)]

add_voltage_level_default_base(pu, voltage_kv) ==
    IF voltage_kv \in DOMAIN pu.voltage_bases THEN pu
    ELSE [pu EXCEPT !.voltage_bases =
              @ @@ (voltage_kv :> PerUnitBase(voltage_kv, DefaultBaseMva))]

add_voltage_level(pu, voltage_kv) ==
    IF voltage_kv \in DOMAIN pu.voltage_bases THEN pu
    ELSE [pu EXCEPT !.voltage_bases =
              @ @@ (voltage_kv :> PerUnitBase(voltage_kv, pu.base_mva))]

\* _build_per_unit_system: the loop over topology.nodes.values() from node i on
RECURSIVE build_per_unit_system(_, _, _)
build_per_unit_system(pu, g, i) ==
    IF i > Len(g.nodes) THEN pu
    ELSE build_per_unit_system(add_voltage_level(pu, g.nodes[i].voltage_level), g, i + 1)

\* _convert_network_impedances: topology.nodes[edge.source_id] and
\* topology.nodes[edge.target_id] raise KeyError for an id that is no node
convert_network_impedances(g) ==
    IF \E e \in DOMAIN g.edges :
           ~HasNode(g, g.edges[e].source_id) \/ ~HasNode(g, g.edges[e].target_id)
    THEN [raised |-> "KeyError"]
    ELSE [raised |-> NoError]

\* _analyze_short_circuits: node.type in ["Bus", "Busbar", "Load", "Motor"]
ShortCircuitTypes == {"Bus", "Busbar", "Load", "Motor"}

\* _analyze_short_circuits: the loop "Analyze each bus" from node i on;
\* results holds the keys of the results dict
\* z_fault is 0j, the path having no impedance entry; the source impedance
\* is 0.05 + 0.5j and the voltage factor 1.1
RECURSIVE analyze_short_circuits(_, _, _, _)
analyze_short_circuits(self, g, i, results) ==
    IF i > Len(g.nodes) THEN [raised |-> NoError, results |-> results]
    ELSE LET node == g.nodes[i]
             path == IF g.sources # <<>> THEN find_path(g, g.sources[1], i) ELSE None
             params == ShortCircuitParameters(node.voltage_level, self.base_mva,
                                              Complex(1, 10), 11)
             fault == calculate_three_phase_fault(params, CZero)
         IN  IF node.type \in ShortCircuitTypes /\ path # None
             THEN IF fault.raised # NoError
                  THEN [raised |-> fault.raised, results |-> results]
                  ELSE analyze_short_circuits(self, g, i + 1, results \cup {i})
             ELSE analyze_short_circuits(self, g, i + 1, results)

\* _analyze_load_flow, "Classify bus type"
classify_bus_type(node) == IF node.type = "Source" THEN "SLACK" ELSE "PQ"

\* _analyze_load_flow: the buses, the solver and solve() inside try / except
\* Exception.  With the zero Y-bus _calculate_power returns zeros in every
\* iteration, so the largest mismatch is the largest specified power: 0.5
\* (never below the tolerance) with a Motor or Load node, 0 without.
analyze_load_flow(g) ==
    LET buses == [i \in DOMAIN g.nodes |-> classify_bus_type(g.nodes[i])]
        has_load == \E i \in DOMAIN g.nodes : g.nodes[i].type \in {"Motor", "Load"}
        solver_ == NewtonRaphsonLoadFlow(buses, DefaultMaxIterations,
                                         IF has_load THEN 0 ELSE 1,
                                         [i \in DOMAIN buses |-> 0])
        out == solve_result(solver_)
    IN  [solved |-> out,
         value |-> IF out.raised # NoError THEN None ELSE out.value]

\* _validate_breakers: the keys of the validations dict.  A fault current in
\* sc_results is positive, so max_fault_current > 0 when a downstream node
\* has a result.
validate_breakers(g, sc_results) ==
    {i \in DOMAIN g.nodes :
        /\ g.nodes[i].type = "Breaker"
        /\ Range(get_downstream_nodes(g, i)) \cap sc_results # {}}

\* _compile_summary; load_flow |-> None stands for the key being absent
compile_summary(sc_results, lf_result, breaker_vals) ==
    [short_circuit |-> [buses_analyzed |-> Cardinality(sc_results)],
     breakers |-> [total |-> Cardinality(breaker_vals)],
     load_flow |-> IF lf_result # None
                   THEN [converged |-> lf_result.converged,
                         iterations |-> lf_result.iterations]
                   ELSE None]

NetworkAnalysisResult(pu, sc_results, lf_result, breaker_vals, summary) ==
    [per_unit_system |-> [base_mva |-> pu.base_mva,
                          voltage_bases |-> DOMAIN pu.voltage_bases],
     short_circuit_results |-> sc_results,
     load_flow_result |-> lf_result,
     breaker_validations |-> breaker_vals,
     summary |-> summary]

\* PerUnitBase.current_amps: power_mva * 1000 / (sqrt(3) * voltage_kv)
current_amps(base) ==
    IF base.voltage_kv = 0 THEN [raised |-> "ZeroDivisionError"]
    ELSE [raised |-> NoError]

\* PerUnitSystem.get_base: the system after the call; the base returned is
\* its voltage_bases[voltage_kv]
get_base(pu, voltage_kv) ==
    IF voltage_kv \notin DOMAIN pu.voltage_bases
    THEN add_voltage_level(pu, voltage_kv)
    ELSE pu

\* A complex float that is not a whole number: two fractions
Rational(z) == [re |-> Ratio(z.re, 1), im |-> Ratio(z.im, 1)]

\* PerUnitBase.impedance_ohms: voltage_kv ** 2 * 1000 / power_mva, with
\* voltage_kv in units of 0.1 kV; zero at voltage 0
impedance_ohms(base) == Ratio(10 * base.voltage_kv * base.voltage_kv, base.power_mva)

impedance_to_pu_times_base(pu, impedance, voltage_kv) ==
    LET after == get_base(pu, voltage_kv)
        z_base == impedance_ohms(after.voltage_bases[voltage_kv])
    IN  IF z_base.num = 0
        THEN [self |-> after, raised |-> "ZeroDivisionError", value |-> None]
        ELSE [self |-> after, raised |-> NoError,
              value |-> [re |-> RatioMul(impedance.re, z_base),
                         im |-> RatioMul(impedance.im, z_base)]]

\* PerUnitSystem.impedance_to_pu: impedance_ohms / base.impedance_ohms, which
\* raises when the base impedance is zero
impedance_to_pu(pu, impedance, voltage_kv) ==
    LET after == get_base(pu, voltage_kv)
        z_base == impedance_ohms(after.voltage_bases[voltage_kv])
        inverse == [num |-> z_base.den, den |-> z_base.num]
    IN  IF z_base.num = 0
        THEN [self |-> after, raised |-> "ZeroDivisionError", value |-> None]
        ELSE [self |-> after, raised |-> NoError,
              value |-> [re |-> RatioMul(impedance.re, inverse),
                         im |-> RatioMul(impedance.im, inverse)]]

\* PerUnitSystem.impedance_to_ohms: impedance_pu * base.impedance_ohms
impedance_to_ohms(pu, impedance, voltage_kv) ==
    LET after == get_base(pu, voltage_kv)
        z_base == impedance_ohms(after.voltage_bases[voltage_kv])
    IN  [self |-> after, raised |-> NoError,
         value |-> [re |-> RatioMul(impedance.re, z_base),
                    im |-> RatioMul(impedance.im, z_base)]]

convert_cable_impedance_to_pu_per_length(resistance_per_km, reactance_per_km, length_km, voltage_kv, base_mva) ==
    IF length_km = 0 THEN [raised |-> "ZeroDivisionError", value |-> None]
    ELSE LET z_ohms == [re |-> Ratio(resistance_per_km, length_km),
                        im |-> Ratio(reactance_per_km, length_km)]
             out == impedance_to_pu(PerUnitSystem(base_mva), z_ohms, voltage_kv)
         IN  [raised |-> out.raised, value |-> out.value]

\* convert_cable_impedance_to_pu: z_ohms = complex(resistance_per_km *
\* length_km, reactance_per_km * length_km), converted by a PerUnitSystem made
\* for the call.  The values per km are in units of 0.01 ohm / km, length_km
\* in units of 0.01 km.
convert_cable_impedance_to_pu(resistance_per_km, reactance_per_km, length_km, voltage_kv, base_mva) ==
    LET z_ohms == [re |-> Ratio(resistance_per_km * length_km, 10000),
                   im |-> Ratio(reactance_per_km * length_km, 10000)]
        out == impedance_to_pu(PerUnitSystem(base_mva), z_ohms, voltage_kv)
    IN  [raised |-> out.raised, value |-> out.value]

current_to_pu(pu, voltage_kv) ==
    LET after == get_base(pu, voltage_kv)
    IN  [self |-> after,
         raised |-> current_amps(after.voltage_bases[voltage_kv]).raised]

current_to_amps(pu, voltage_kv) ==
    LET after == get_base(pu, voltage_kv)
    IN  [self |-> after,
         raised |-> current_amps(after.voltage_bases[voltage_kv]).raised]

topology_after_levelling(g) == calculate_network_levels(g)

\* analyze_network, the graph after the call: the stages read topology.nodes,
\* topology.edges and topology.sources and call find_path and
\* get_downstream_nodes, which read the adjacency dict with .get; none of
\* them assigns to the graph or to a node
topology_after_analysis(g) == g

\* analyze_network: steps 1 to 6, the summary and the result, whose
\* per_unit_system reads current_amps of every base of self.pu_system.  self
\* is the service after the call, raised the exception that ended it, value
\* the result returned.
analyze_network(self, g, run_load_flow) ==
    LET pu == build_per_unit_system(self.pu_system, g, 1)
        after == [self EXCEPT !.pu_system = pu]
        impedances == convert_network_impedances(g)
        sc == analyze_short_circuits(self, g, 1, {})
        lf == IF run_load_flow THEN analyze_load_flow(g)
              ELSE [solved |-> NotSolved, value |-> None]
        breakers == validate_breakers(g, sc.results)
        summary == compile_summary(sc.results, lf.value, breakers)
    IN  IF impedances.raised # NoError
        THEN [self |-> after, raised |-> impedances.raised,
              value |-> None, solved |-> NotSolved, topology |-> g]
        ELSE IF sc.raised # NoError
        THEN [self |-> after, raised |-> sc.raised,
              value |-> None, solved |-> NotSolved, topology |-> g]
        ELSE IF \E v \in DOMAIN pu.voltage_bases :
                    current_amps(pu.voltage_bases[v]).raised # NoError
        THEN [self |-> after, raised |-> "ZeroDivisionError",
              value |-> None, solved |-> lf.solved,
              topology |-> topology_after_analysis(g)]
        ELSE [self |-> after, raised |-> NoError, solved |-> lf.solved,
              topology |-> topology_after_analysis(g),
              value |-> NetworkAnalysisResult(pu, sc.results, lf.value,
                                              breakers, summary)]

\* ------------------------------------------------------ admittance matrix
\* Impedances are in p.u., admittances in units of 1/YUnit p.u.
\* y = 1.0 / z, in units of 1/YUnit p.u.: conj(z) / |z|^2.  The impedances
\* handed to it are those whose reciprocal is a whole number of units, for
\* which the floating-point quotient is exact as well.
YUnit == 4
Reciprocal(z) ==
    LET n == z.re * z.re + z.im * z.im
    IN  Complex((YUnit * z.re) \div n, (-(YUnit * z.im)) \div n)

\* node_index = {node: i for i, node in enumerate(nodes)}: a node listed
\* twice keeps its last position (positions count from 1 here)
node_index(nodes) ==
    [x \in Range(nodes) |-> CHOOSE i \in DOMAIN nodes :
        nodes[i] = x /\ \A j \in DOMAIN nodes : nodes[j] = x => j <= i]

\* Y_bus = np.zeros((n, n), dtype=complex)
zeros(n) == [i \in 1..n |-> [j \in 1..n |-> CZero]]

\* Y_bus[i, j] += y and Y_bus[i, j] -= y
PlusAt(Y, i, j, y) == [Y EXCEPT ![i][j] = CAdd(@, y)]
MinusAt(Y, i, j, y) == [Y EXCEPT ![i][j] = CSub(@, y)]

stamp_branch_one_diagonal(Y, i, j, y) ==
    PlusAt(MinusAt(MinusAt(Y, i, j, y), j, i, y), i, i, y)

stamp_branch_one_way(Y, i, j, y) ==
    PlusAt(PlusAt(MinusAt(Y, i, j, y), i, i, y), j, j, y)

\* build_admittance_matrix, the four assignments of one branch, in order
stamp_branch(Y, i, j, y) ==
    PlusAt(PlusAt(MinusAt(MinusAt(Y, i, j, y), j, i, y), i, i, y), j, j, y)

\* build_admittance_matrix, the loop over impedances.items(): items is the
\* dict in insertion order, each item the key (from_node, to_node) and z
RECURSIVE fill_ybus(_, _, _, _)
fill_ybus(Y, index, items, k) ==
    IF k > Len(items) THEN [raised |-> NoError, value |-> Y]
    ELSE LET item == items[k]
         IN  IF item.z = CZero THEN fill_ybus(Y, index, items, k + 1)
             ELSE IF item.from_node \notin DOMAIN index
                     \/ item.to_node \notin DOMAIN index
             THEN [raised |-> "KeyError", value |-> None]
             ELSE fill_ybus(stamp_branch(Y, index[item.from_node],
                                         index[item.to_node],
                                         Reciprocal(item.z)),
                            index, items, k + 1)

build_admittance_matrix(nodes, impedances) ==
    fill_ybus(zeros(Len(nodes)), node_index(nodes), impedances, 1)

\* _build_jacobian(v, theta): np.zeros((j_size, j_size)) with 10.0 on the
\* diagonal and -1.0 beside it, in units of 1/YUnit as the Y-bus; v, theta
\* and self.y_bus are not read
build_jacobian(self, v, theta) ==
    [i \in 1..j_size(self) |->
        [j \in 1..j_size(self) |->
            IF i = j THEN 10 * YUnit
            ELSE IF i = j + 1 \/ j = i + 1 THEN -YUnit
            ELSE 0]]

\* ------------------------------------------------------- breaker rating
\* round(num / den, ndigits) with the quotient counted in units of the last
\* digit kept, den > 0: the nearest whole number; when num / den lies halfway
\* between two of them the binary value of the float decides, so both are
\* outcomes
RoundOutcomes(num, den) ==
    LET Dist(q) == IF num >= q * den THEN num - q * den ELSE q * den - num
    IN  {q \in {num \div den, (num \div den) + 1} : 2 * Dist(q) <= den}

\* breaker_rating_ka >= fault_current_ka * 1.1, currents in A: 1.1 is not a
\* binary fraction, so on exact equality the rounding of the product decides
is_adequate_outcomes(fault_current_ka, breaker_rating_ka) ==
    IF 10 * breaker_rating_ka > 11 * fault_current_ka THEN {TRUE}
    ELSE IF 10 * breaker_rating_ka < 11 * fault_current_ka THEN {FALSE}
    ELSE BOOLEAN

\* validate_breaker_rating, the results the call can give.  Arguments are in
\* A (0.001 kA); the results are in the units of their last digit: 0.01 kA
\* and 0.1 percent.  voltage_kv is not read.
validate_breaker_rating(fault_current_ka, breaker_rating_ka) ==
    IF breaker_rating_ka = 0
    THEN {[raised |-> "ZeroDivisionError", value |-> None]}
    ELSE {[raised |-> NoError,
           value |-> [fault_current_ka |-> fault,
                      breaker_rating_ka |-> rating,
                      required_rating_ka |-> required,
                      is_adequate |-> is_adequate,
                      utilization_percent |-> utilization,
                      margin_ka |-> margin_ka,
                      margin_percent |-> margin_percent,
                      status |-> IF is_adequate THEN "PASS"
                                 ELSE "FAIL - UNDERSIZED"]] :
            fault \in RoundOutcomes(fault_current_ka, 10),
            rating \in RoundOutcomes(breaker_rating_ka, 10),
            required \in RoundOutcomes(11 * fault_current_ka, 100),
            is_adequate \in is_adequate_outcomes(fault_current_ka,
                                                 breaker_rating_ka),
            utilization \in RoundOutcomes(fault_current_ka * 1000,
                                          breaker_rating_ka),
            margin_ka \in RoundOutcomes(breaker_rating_ka - fault_current_ka, 10),
            margin_percent \in
                RoundOutcomes((breaker_rating_ka - fault_current_ka) * 1000,
                              breaker_rating_ka)}

\* ------------------------------------- analysis with component data
\* analyze_network(topology, component_data, run_load_flow=False).
\* component_data holds the cables by cable id (impedance_r and impedance_x,
\* in units of 0.01 ohm / km), the motors' power_kw (kW) and the breakers'
\* short_circuit_rating (A) by node id.  No node is a Transformer.

\* TopologyEdge(id, source_id, target_id, cable_id, length=...): cable_id ""
\* for an edge without cable, length in units of 10 m
CableEdge(s, t, cable_id, length) ==
    [source_id |-> s, target_id |-> t, cable_id |-> cable_id, length |-> length]

\* add_edge(edge), the edge stored being the object given
add_cable_edge(g, e, edge) ==
    [add_edge(g, e, edge.source_id, edge.target_id) EXCEPT !.edges[e] = edge]

\* A complex float that is a whole number of p.u., as the per-unit impedance
\* of a cable of the model is
Whole(z) == Complex(z.re.num \div z.re.den, z.im.num \div z.im.den)

\* impedances_pu[(edge.source_id, edge.target_id)] = z_pu: items is the dict
\* in insertion order; an assignment to a key the dict holds replaces the
\* value and keeps the position
set_impedance(items, s, t, z) ==
    IF \E k \in DOMAIN items : items[k].from_node = s /\ items[k].to_node = t
    THEN [k \in DOMAIN items |->
             IF items[k].from_node = s /\ items[k].to_node = t
             THEN [items[k] EXCEPT !.z = z]
             ELSE items[k]]
    ELSE Append(items, [from_node |-> s, to_node |-> t, z |-> z])

\* _convert_network_impedances: the loop over topology.edges.items() from
\* edge e on (edge ids are issued in insertion order); length_km is
\* edge.length / 1000.0, in units of 0.01 km the length in units of 10 m
RECURSIVE convert_cable_edges(_, _, _, _, _)
convert_cable_edges(self, g, component_data, e, items) ==
    IF e \notin DOMAIN g.edges THEN [raised |-> NoError, value |-> items]
    ELSE LET edge == g.edges[e]
         IN  IF ~HasNode(g, edge.source_id) \/ ~HasNode(g, edge.target_id)
             THEN [raised |-> "KeyError", value |-> None]
             ELSE IF edge.cable_id # ""
                     /\ edge.cable_id \in DOMAIN component_data.cables
             THEN LET cable == component_data.cables[edge.cable_id]
                      z_pu == convert_cable_impedance_to_pu(
                                  cable.impedance_r, cable.impedance_x,
                                  edge.length,
                                  g.nodes[edge.source_id].voltage_level,
                                  self.base_mva)
                  IN  IF z_pu.raised # NoError
                      THEN [raised |-> z_pu.raised, value |-> None]
                      ELSE convert_cable_edges(
                               self, g, component_data, e + 1,
                               set_impedance(items, edge.source_id,
                                             edge.target_id, Whole(z_pu.value)))
             ELSE convert_cable_edges(self, g, component_data, e + 1, items)

\* _build_ybus: nodes = list(topology.nodes.keys())
build_ybus(g, impedances_pu) ==
    build_admittance_matrix([i \in DOMAIN g.nodes |-> i], impedances_pu)

\* _analyze_short_circuits, "Identify motor nodes": the list motors, from
\* node i on
RECURSIVE motors_with_data(_, _, _)
motors_with_data(g, component_data, i) ==
    IF i > Len(g.nodes) THEN <<>>
    ELSE IF g.nodes[i].type = "Motor" /\ i \in DOMAIN component_data.power_kw
    THEN <<[power_kw |-> component_data.power_kw[i],
            voltage_kv |-> g.nodes[i].voltage_level]>>
         \o motors_with_data(g, component_data, i + 1)
    ELSE motors_with_data(g, component_data, i + 1)

\* calculate_motor_contribution: motor_mva = (power_kw / 1000.0) / 0.85 and
\* z_motor_pu = 0.2 * (base_mva / motor_mva), that is 170 * base_mva /
\* power_kw, which raises at power_kw = 0; the result 1.0 / y_total, y_total
\* the sum of 1.0 / complex(0.01, z_motor_pu), is kept as the list of the
\* impedances in parallel.  abs(y_total) > 1e-10 for motors of 2 kW and more.
calculate_motor_contribution(motors, base_mva) ==
    IF motors = <<>> THEN [raised |-> NoError, value |-> None]
    ELSE IF \E k \in DOMAIN motors : motors[k].power_kw = 0
    THEN [raised |-> "ZeroDivisionError", value |-> None]
    ELSE [raised |-> NoError,
          value |-> [parallel |->
                        [k \in DOMAIN motors |->
                            [re |-> Ratio(1, 100),
                             im |-> Ratio(170 * base_mva, motors[k].power_kw)]]]]

\* calculate_three_phase_fault(fault_impedance_pu, motor_contribution): with
\* a motor contribution z_total_pu = 1.0 / (1.0 / z_total_pu + 1.0 /
\* z_motors_parallel), kept as its two operands
three_phase_fault(params, fault_impedance_pu, motor_contribution) ==
    IF motor_contribution = None
    THEN calculate_three_phase_fault(params, fault_impedance_pu)
    ELSE IF params.base_mva = 0 \/ params.voltage_kv = 0
            \/ total_impedance_pu(params, fault_impedance_pu) = CZero
    THEN [raised |-> "ZeroDivisionError", value |-> None]
    ELSE [raised |-> NoError,
          value |-> [z_network |-> total_impedance_pu(params, fault_impedance_pu),
                     motor_contribution |-> motor_contribution]]

\* z_fault += impedances_pu[edge_key] for i in range(len(path) - 1), when
\* edge_key in impedances_pu
RECURSIVE path_impedance(_, _, _)
path_impedance(path, impedances_pu, i) ==
    IF i >= Len(path) THEN CZero
    ELSE LET held == {k \in DOMAIN impedances_pu :
                         /\ impedances_pu[k].from_node = path[i]
                         /\ impedances_pu[k].to_node = path[i + 1]}
         IN  CAdd(IF held = {} THEN CZero
                  ELSE impedances_pu[CHOOSE k \in held : TRUE].z,
                  path_impedance(path, impedances_pu, i + 1))

\* An impedance in p.u., in the calculator's units of 0.05 p.u.
InCalculatorUnits(z) == Complex(20 * z.re, 20 * z.im)

\* _analyze_short_circuits, "Analyze each bus": the loop from node i on, with
\* results the dict by node id
RECURSIVE short_circuit_results(_, _, _, _, _, _)
short_circuit_results(self, g, impedances_pu, z_motor, i, results) ==
    IF i > Len(g.nodes) THEN [raised |-> NoError, value |-> results]
    ELSE LET node == g.nodes[i]
             path == IF g.sources # <<>> THEN find_path(g, g.sources[1], i) ELSE None
             z_fault == path_impedance(path, impedances_pu, 1)
             params == ShortCircuitParameters(node.voltage_level, self.base_mva,
                                              Complex(1, 10), 11)
             fault == three_phase_fault(params, InCalculatorUnits(z_fault), z_motor)
         IN  IF node.type \in ShortCircuitTypes /\ path # None
             THEN IF fault.raised # NoError
                  THEN [raised |-> fault.raised, value |-> None]
                  ELSE short_circuit_results(self, g, impedances_pu, z_motor, i + 1,
                                             results @@ (i :> fault.value))
             ELSE short_circuit_results(self, g, impedances_pu, z_motor, i + 1,
                                        results)

\* _analyze_short_circuits
analyze_short_circuits_of(self, g, impedances_pu, component_data) ==
    LET motors == motors_with_data(g, component_data, 1)
        z_motor == calculate_motor_contribution(motors, self.base_mva)
    IN  IF z_motor.raised # NoError
        THEN [raised |-> z_motor.raised, value |-> None]
        ELSE short_circuit_results(self, g, impedances_pu, z_motor.value, 1, <<>>)

\* _validate_breakers: breaker.get('short_circuit_rating', 10.0), in A
DefaultBreakerRating == 10000

max_fault_current_smallest(g, sc_results, node_id) ==
    LET found == {sc_results[d].i_k3_initial :
                     d \in Range(get_downstream_nodes(g, node_id))
                          \cap DOMAIN sc_results}
    IN  IF found = {} THEN None
        ELSE CHOOSE x \in found : \A y \in found : ~RootLess(y, x)

\* _validate_breakers, "Find maximum fault current downstream": the largest
\* i_k3_initial of the downstream nodes that have a result; None stands for
\* max_fault_current left at 0.0, a fault current being positive
max_fault_current(g, sc_results, node_id) ==
    LET found == {sc_results[d].i_k3_initial :
                     d \in Range(get_downstream_nodes(g, node_id))
                          \cap DOMAIN sc_results}
    IN  IF found = {} THEN None
        ELSE CHOOSE x \in found : \A y \in found : ~RootLess(x, y)

\* _validate_breakers: the validations dict, each entry kept as the
\* arguments validate_breaker_rating is called with, which raises for a
\* rating of 0
validate_breakers_of(g, sc_results, component_data) ==
    LET rating(i) == IF i \in DOMAIN component_data.short_circuit_rating
                     THEN component_data.short_circuit_rating[i]
                     ELSE DefaultBreakerRating
        validated == {i \in DOMAIN g.nodes :
                         /\ g.nodes[i].type = "Breaker"
                         /\ max_fault_current(g, sc_results, i) # None}
    IN  IF \E i \in validated : rating(i) = 0
        THEN [raised |-> "ZeroDivisionError", value |-> None]
        ELSE [raised |-> NoError,
              value |-> [i \in validated |->
                            [fault_current_ka |-> max_fault_current(g, sc_results, i),
                             breaker_rating_ka |-> rating(i),
                             voltage_kv |-> g.nodes[i].voltage_level]]]

\* analyze_network with run_load_flow=False: steps 1 to 4 and 6, then the
\* result (the summary counts its dicts)
analyze_network_with(self, g, component_data) ==
    LET pu == build_per_unit_system(self.pu_system, g, 1)
        after == [self EXCEPT !.pu_system = pu]
        impedances_pu == convert_cable_edges(self, g, component_data, 1, <<>>)
        y_bus == build_ybus(g, impedances_pu.value)
        sc_results == analyze_short_circuits_of(self, g, impedances_pu.value,
                                                component_data)
        breaker_validations == validate_breakers_of(g, sc_results.value,
                                                    component_data)
        Raise(err) == [self |-> after, raised |-> err, value |-> None]
    IN  IF impedances_pu.raised # NoError THEN Raise(impedances_pu.raised)
        ELSE IF y_bus.raised # NoError THEN Raise(y_bus.raised)
        ELSE IF sc_results.raised # NoError THEN Raise(sc_results.raised)
        ELSE IF breaker_validations.raised # NoError
        THEN Raise(breaker_validations.raised)
        ELSE IF \E v \in DOMAIN pu.voltage_bases :
                    current_amps(pu.voltage_bases[v]).raised # NoError
        THEN Raise("ZeroDivisionError")
        ELSE [self |-> after, raised |-> NoError,
              value |-> [y_bus_matrix |-> y_bus.value,
                         short_circuit_results |-> sc_results.value,
                         load_flow_result |-> None,
                         breaker_validations |-> breaker_validations.value]]

\* ------------------------------------------------- calls on the graph
Called(op) ==
    /\ lastOp' = op
    /\ identifyCalls' = IF op # "identify_buses" THEN 0
                        ELSE IF identifyCalls = 0 THEN 1 ELSE 2
    /\ raised' = NoError
    /\ args' = None
    /\ UNCHANGED <<solver, solved, service, used>>

\* Node ids are database keys, issued in insertion order
AddNode(t, v) ==
    /\ topology' = add_node(topology, t, v)
    /\ Called("add_node")
    /\ levelsFresh' = FALSE
    /\ returned' = None
    /\ UNCHANGED hadDangling

AddEdge(e, s, t) ==
    /\ topology' = add_edge(topology, e, s, t)
    /\ Called("add_edge")
    /\ levelsFresh' = FALSE
    /\ hadDangling' = (hadDangling \/ ~HasNode(topology, s) \/ ~HasNode(topology, t))
    /\ returned' = None

RemoveEdge(e) ==
    /\ topology' = remove_edge(topology, e)
    /\ Called("remove_edge")
    /\ levelsFresh' = (levelsFresh /\ e \notin DOMAIN topology.edges)
    /\ returned' = None
    /\ UNCHANGED hadDangling

CalculateNetworkLevels ==
    /\ topology' = calculate_network_levels(topology)
    /\ Called("calculate_network_levels")
    /\ levelsFresh' = TRUE
    /\ returned' = None
    /\ UNCHANGED hadDangling

IdentifyBuses ==
    /\ topology' = identify_buses(topology)
    /\ Called("identify_buses")
    /\ returned' = None
    /\ UNCHANGED <<levelsFresh, hadDangling>>

DetectLoops ==
    /\ returned' = detect_loops(topology)
    /\ Called("detect_loops")
    /\ UNCHANGED <<topology, levelsFresh, hadDangling>>

ValidateTopology ==
    /\ returned' = validate_topology(topology)
    /\ Called("validate_topology")
    /\ UNCHANGED <<topology, levelsFresh, hadDangling>>

\* NewtonRaphsonLoadFlow(buses, y_bus, bus_index_map, max_iterations)
NewSolver(buses, max_iterations, first_small, p_calc) ==
    /\ solver' = NewtonRaphsonLoadFlow(buses, max_iterations, first_small, p_calc)
    /\ lastOp' = "NewtonRaphsonLoadFlow"
    /\ returned' = None
    /\ raised' = NoError
    /\ solved' = NotSolved
    /\ args' = None
    /\ UNCHANGED <<topology, identifyCalls, levelsFresh, hadDangling, service, used>>

\* solver.solve(); args keeps what the buses held when the call began
Solve ==
    LET out == solve(solver)
    IN  /\ lastOp' = "solve"
        /\ returned' = out.value
        /\ raised' = out.raised
        /\ solved' = [raised |-> out.raised, value |-> out.value]
        /\ solver' = out.self
        /\ args' = [calculated |-> solver.calculated,
                    held_converged |-> /\ lastOp = "solve"
                                       /\ raised = NoError
                                       /\ returned.converged]
        /\ UNCHANGED <<topology, identifyCalls, levelsFresh, hadDangling,
                       service, used>>

AnalyzeNetwork(run_load_flow) ==
    LET out == analyze_network(service, topology, run_load_flow)
    IN  /\ service' = out.self
        /\ lastOp' = "analyze_network"
        /\ returned' = out.value
        /\ raised' = out.raised
        /\ solved' = out.solved
        /\ used' = used \cup {topology.nodes[i].voltage_level : i \in DOMAIN topology.nodes}
        /\ args' = [run_load_flow |-> run_load_flow]
        /\ topology' = out.topology
        /\ UNCHANGED <<identifyCalls, levelsFresh, hadDangling, solver>>

\* add_edge of an edge between two nodes of the graph
AddCableEdge(e, edge) ==
    /\ topology' = add_cable_edge(topology, e, edge)
    /\ Called("add_edge")
    /\ levelsFresh' = FALSE
    /\ returned' = None
    /\ UNCHANGED hadDangling

AnalyzeNetworkWith(component_data) ==
    LET out == analyze_network_with(service, topology, component_data)
    IN  /\ service' = out.self
        /\ lastOp' = "analyze_network with component_data"
        /\ returned' = out.value
        /\ raised' = out.raised
        /\ used' = used \cup {topology.nodes[i].voltage_level : i \in DOMAIN topology.nodes}
        /\ args' = [component_data |-> component_data]
        /\ UNCHANGED <<topology, identifyCalls, levelsFresh, hadDangling,
                       solver, solved>>

\* build_topology_from_database: graph = TopologyGraph()
NewTopology ==
    /\ topology' = TopologyGraph
    /\ Called("TopologyGraph")
    /\ levelsFresh' = FALSE
    /\ hadDangling' = FALSE
    /\ returned' = None

\* IntegratedCalculationService(base_mva)
NewService(base_mva) ==
    /\ service' = IntegratedCalculationService(base_mva)
    /\ used' = {}
    /\ lastOp' = "IntegratedCalculationService"
    /\ returned' = None
    /\ raised' = NoError
    /\ args' = [base_mva |-> base_mva]
    /\ UNCHANGED <<topology, identifyCalls, levelsFresh, hadDangling, solver, solved>>

\* A call op(voltage_kv) on service.pu_system that leaves it as after, ends
\* with exception err and, when it returns a base, returns value
PerUnitCalled(op, voltage_kv, after, err, value) ==
    /\ service' = [service EXCEPT !.pu_system = after]
    /\ used' = used \cup {voltage_kv}
    /\ lastOp' = op
    /\ returned' = value
    /\ raised' = err
    /\ args' = [voltage_kv |-> voltage_kv]
    /\ UNCHANGED <<topology, identifyCalls, levelsFresh, hadDangling, solver, solved>>

AddVoltageLevel(voltage_kv) ==
    LET after == add_voltage_level(service.pu_system, voltage_kv)
    IN  PerUnitCalled("add_voltage_level", voltage_kv, after, NoError,
                      after.voltage_bases[voltage_kv])

GetBase(voltage_kv) ==
    LET after == get_base(service.pu_system, voltage_kv)
    IN  PerUnitCalled("get_base", voltage_kv, after, NoError,
                      after.voltage_bases[voltage_kv])

\* The two impedance conversions; args keeps the impedance handed in and, when
\* it is the value impedance_to_ohms returned just before for the same
\* voltage, the per-unit impedance that one was given (origin)
ImpedanceCalled(op, impedance, voltage_kv, origin, out) ==
    /\ service' = [service EXCEPT !.pu_system = out.self]
    /\ used' = used \cup {voltage_kv}
    /\ lastOp' = op
    /\ returned' = out.value
    /\ raised' = out.raised
    /\ args' = [voltage_kv |-> voltage_kv, impedance |-> impedance,
                origin |-> origin]
    /\ UNCHANGED <<topology, identifyCalls, levelsFresh, hadDangling, solver, solved>>

ImpedanceToPu(impedance_ohms_, voltage_kv) ==
    ImpedanceCalled("impedance_to_pu", impedance_ohms_, voltage_kv, None,
                    impedance_to_pu(service.pu_system, impedance_ohms_, voltage_kv))

ImpedanceToOhms(impedance_pu, voltage_kv) ==
    ImpedanceCalled("impedance_to_ohms", impedance_pu, voltage_kv, None,
                    impedance_to_ohms(service.pu_system, impedance_pu, voltage_kv))

\* impedance_to_pu(impedance_to_ohms(z, V), V), the outer call
ImpedanceBackToPu ==
    /\ lastOp = "impedance_to_ohms"
    /\ raised = NoError
    /\ ImpedanceCalled("impedance_to_pu", returned, args.voltage_kv, args.impedance,
                       impedance_to_pu(service.pu_system, returned, args.voltage_kv))

CurrentToPu(voltage_kv) ==
    LET out == current_to_pu(service.pu_system, voltage_kv)
    IN  PerUnitCalled("current_to_pu", voltage_kv, out.self, out.raised, None)

CurrentToAmps(voltage_kv) ==
    LET out == current_to_amps(service.pu_system, voltage_kv)
    IN  PerUnitCalled("current_to_amps", voltage_kv, out.self, out.raised, None)

\* A call of a function that takes its arguments from args and has no object
PureCalled(op, out) ==
    /\ lastOp' = op
    /\ returned' = out.value
    /\ raised' = out.raised
    /\ UNCHANGED <<topology, identifyCalls, levelsFresh, hadDangling, solver,
                   solved, service, used, args>>

BuildAdmittanceMatrix ==
    PureCalled("build_admittance_matrix",
               build_admittance_matrix(args.nodes, args.impedances))

ValidateBreakerRating ==
    \E out \in validate_breaker_rating(args.fault_current_ka,
                                       args.breaker_rating_ka) :
        PureCalled("validate_breaker_rating", out)

\* solver._build_jacobian(v, theta), as the first pass of solve() calls it
BuildJacobian ==
    PureCalled("_build_jacobian",
               [raised |-> NoError,
                value |-> build_jacobian(solver, args.v, args.theta)])

\* IEC60909Calculator(params).calculate_three_phase_fault(fault_impedance_pu);
\* args keeps the calculator's parameters and, for comparison, the impedance
\* and the outcome of the call made before on the same calculator
CalculateThreePhaseFault(fault_impedance_pu) ==
    LET out == calculate_three_phase_fault(args.params, fault_impedance_pu)
    IN  /\ lastOp' = "calculate_three_phase_fault"
        /\ returned' = out.value
        /\ raised' = out.raised
        /\ args' = [params |-> args.params,
                    fault_impedance_pu |-> fault_impedance_pu,
                    earlier |-> IF lastOp = "calculate_three_phase_fault"
                                THEN [fault_impedance_pu |-> args.fault_impedance_pu,
                                      raised |-> raised, value |-> returned]
                                ELSE None]
        /\ UNCHANGED <<topology, identifyCalls, levelsFresh, hadDangling, solver,
                       solved, service, used>>

ConvertCableImpedanceToPu ==
    PureCalled("convert_cable_impedance_to_pu",
               convert_cable_impedance_to_pu(args.resistance_per_km,
                                             args.reactance_per_km, args.length_km,
                                             args.voltage_kv, args.base_mva))

\* The state after construction, with the solver slv, before a call with the
\* arguments a
InitState(a, slv) ==
    /\ topology = TopologyGraph
    /\ lastOp = "init"
    /\ identifyCalls = 0
    /\ levelsFresh = FALSE
    /\ hadDangling = FALSE
    /\ returned = None
    /\ raised = NoError
    /\ solver = slv
    /\ solved = NotSolved
    /\ service = IntegratedCalculationService(DefaultBaseMva)
    /\ used = {}
    /\ args = a

InitArgs(a) == InitState(a, NewtonRaphsonLoadFlow(<<>>, DefaultMaxIterations, 0, <<>>))

Init == InitArgs(None)

\* ------------------------------------------------------- specifications
\* The caller's choices.  A new node takes the next id; a new edge takes the
\* lowest id no stored edge holds (ids are database keys, never shared), and
\* its endpoints are any ids, also of nodes not (yet) in the graph.
NewNode(types, voltages) ==
    \E t \in types, v \in voltages :
        /\ Len(topology.nodes) < MaxNodes
        /\ AddNode(t, v)

NewEdge(maxEdges) ==
    \E e \in 1..maxEdges, s \in 1..MaxNodes, t \in 1..MaxNodes :
        /\ e \notin DOMAIN topology.edges
        /\ \A x \in 1..(e - 1) : x \in DOMAIN topology.edges
        /\ AddEdge(e, s, t)

DropEdge(maxEdges) == \E e \in 1..maxEdges : RemoveEdge(e)

\* The graph under add_node, add_edge and remove_edge
NextGraph ==
    \/ NewNode({"Source", "Load"}, {4})
    \/ NewEdge(MaxGraphEdges)
    \/ DropEdge(MaxGraphEdges)

SpecGraph == Init /\ [][NextGraph]_vars

\* ... with the level pass and the validation
NextLevels ==
    \/ NewNode({"Source"}, Voltages)
    \/ NewNode({"Load"}, {4})
    \/ NewEdge(MaxEdges)
    \/ DropEdge(MaxEdges)
    \/ CalculateNetworkLevels
    \/ ValidateTopology

SpecLevels == Init /\ [][NextLevels]_vars

\* ... with the bus identification
NextBuses ==
    \/ NewNode({"Bus", "Switchgear"}, Voltages)
    \/ NewNode({"Load"}, {4})
    \/ NewEdge(MaxEdges)
    \/ DropEdge(MaxEdges)
    \/ IdentifyBuses

SpecBuses == Init /\ [][NextBuses]_vars

\* Graphs in which every node has at most one outgoing edge (chains, a source
\* feeding a cycle, ...): the edge leaving node s is stored under id s, and
\* its endpoints are nodes of the graph.
NextLoops ==
    \/ \E t \in {"Source", "Bus"} :
          /\ Len(topology.nodes) < MaxLoopNodes
          /\ AddNode(t, 4)
    \/ \E s \in DOMAIN topology.nodes, t \in DOMAIN topology.nodes :
          /\ s \notin DOMAIN topology.edges
          /\ AddEdge(s, s, t)
    \/ DetectLoops

SpecLoops == Init /\ [][NextLoops]_vars

\* The solver on any dict of at most MaxBuses buses
BusDicts == UNION {[1..n -> LoadFlowBusTypes] : n \in 0..MaxBuses}

NextLF ==
    \/ \E buses \in BusDicts, max_iterations \in 0..MaxIter :
          \E first_small \in 0..MaxIter :
              NewSolver(buses, max_iterations, first_small,
                        [i \in DOMAIN buses |-> 0])
    \/ Solve

SpecLF == Init /\ [][NextLF]_vars

\* solve() and solve() again, on every solver of at most MaxBuses buses; the
\* powers of the last pass are in units of 0.1 p.u.
CalculatedPowers == {-5, -3, 0, 9}

InitSolve ==
    \E buses \in BusDicts, max_iterations \in 0..MaxIter, first_small \in 0..MaxIter :
        \E p_calc \in [DOMAIN buses -> CalculatedPowers] :
            InitState(None, NewtonRaphsonLoadFlow(buses, max_iterations,
                                                  first_small, p_calc))

NextSolve == Solve

SpecSolve == InitSolve /\ [][NextSolve]_vars

\* The per-unit system of a service; 0 is a voltage level not filled in
BaseMvas == {50, 100}
PerUnitVoltages == {0, 4, 110, 330}
ImpedanceValues == {Rational(CZero), Rational(Complex(1, 0)),
                    Rational(Complex(3, -4)), Rational(Complex(-2, 5))}

NextPU ==
    \/ \E base_mva \in BaseMvas : NewService(base_mva)
    \/ \E v \in PerUnitVoltages : AddVoltageLevel(v)
    \/ \E v \in PerUnitVoltages : GetBase(v)
    \/ \E z \in ImpedanceValues, v \in PerUnitVoltages : ImpedanceToPu(z, v)
    \/ \E z \in ImpedanceValues, v \in PerUnitVoltages : ImpedanceToOhms(z, v)
    \/ ImpedanceBackToPu
    \/ \E v \in PerUnitVoltages : CurrentToPu(v)
    \/ \E v \in PerUnitVoltages : CurrentToAmps(v)

SpecPU == Init /\ [][NextPU]_vars

\* The service on a graph as it is built; 0 is the voltage of a node whose
\* voltage level was not filled in
NextNet ==
    \/ NewNode({"Source", "Bus", "Breaker"}, {4})
    \/ NewNode({"Load"}, {0, 4})
    \/ NewEdge(MaxEdges)
    \/ \E run_load_flow \in BOOLEAN : AnalyzeNetwork(run_load_flow)

SpecNet == Init /\ [][NextNet]_vars

\* build_admittance_matrix on every list of at most MaxNodes nodes and every
\* impedance dict of at most MaxEdges branches between those ids
Impedances == {CZero, Complex(1, 0), Complex(2, 0), Complex(0, 1),
               Complex(1, 1), Complex(1, -1)}
YbusNodeIds == 1..MaxNodes
NodeLists == UNION {[1..n -> YbusNodeIds] : n \in 0..MaxNodes}
Branches == [from_node : YbusNodeIds, to_node : YbusNodeIds, z : Impedances]
ImpedanceDicts ==
    {items \in UNION {[1..n -> Branches] : n \in 0..MaxEdges} :
        \A a, b \in DOMAIN items :
            (/\ items[a].from_node = items[b].from_node
             /\ items[a].to_node = items[b].to_node) => a = b}

InitYbus ==
    \E nodes \in NodeLists, impedances \in ImpedanceDicts :
        InitArgs([nodes |-> nodes, impedances |-> impedances])

NextYbus == BuildAdmittanceMatrix

SpecYbus == InitYbus /\ [][NextYbus]_vars

\* validate_breaker_rating on fault currents around a rating of 10 kA, in A,
\* and on currents and ratings that stand in the ratio 1.1
FaultCurrents == (9990..10010) \cup {0, 1000, 3000, 12000}
BreakerRatings == {0, 1100, 3300, 10000, 11000}

InitBreaker ==
    \E fault \in FaultCurrents, rating \in BreakerRatings :
        InitArgs([fault_current_ka |-> fault, breaker_rating_ka |-> rating])

NextBreaker == ValidateBreakerRating

SpecBreaker == InitBreaker /\ [][NextBreaker]_vars

\* convert_cable_impedance_to_pu on cables of 0, 50 m and 1 km
CableOhmsPerKm == {0, 15, 39, 120}
CableLengths == {0, 5, 100}

InitCable ==
    \E resistance_per_km \in CableOhmsPerKm, reactance_per_km \in CableOhmsPerKm,
       length_km \in CableLengths, voltage_kv \in PerUnitVoltages,
       base_mva \in BaseMvas :
        InitArgs([resistance_per_km |-> resistance_per_km,
                  reactance_per_km |-> reactance_per_km,
                  length_km |-> length_km, voltage_kv |-> voltage_kv,
                  base_mva |-> base_mva])

NextCable == ConvertCableImpedanceToPu

SpecCable == InitCable /\ [][NextCable]_vars

\* calculate_three_phase_fault, called again and again on one calculator:
\* nominal voltages 0, 0.4 and 1 kV, voltage factors 1.0 and 1.1, source
\* impedances 0, 0.05 + 0.5j and 0.20 + 2.0j p.u.
FaultVoltages == {0, 4, 10}
VoltageFactors == {10, 11}
SourceImpedances == {CZero, Complex(1, 10), Complex(4, 40)}
FaultImpedances == {CZero, Complex(1, 0), Complex(0, 1), Complex(3, 4),
                    Complex(4, 3), Complex(5, 0)}

InitFault ==
    \E voltage_kv \in FaultVoltages, base_mva \in BaseMvas,
       source_impedance \in SourceImpedances, voltage_factor_c \in VoltageFactors :
        InitArgs([params |-> ShortCircuitParameters(voltage_kv, base_mva,
                                source_impedance, voltage_factor_c),
                  fault_impedance_pu |-> None, earlier |-> None])

NextFault ==
    \E fault_impedance_pu \in FaultImpedances :
        CalculateThreePhaseFault(fault_impedance_pu)

SpecFault == InitFault /\ [][NextFault]_vars

\* One service analysing one graph after another
NextReuse ==
    \/ NewNode({"Source"}, {4})
    \/ NewNode({"Load"}, {0, 110})
    \/ NewEdge(MaxEdges)
    \/ NewTopology
    \/ \E run_load_flow \in BOOLEAN : AnalyzeNetwork(run_load_flow)

SpecReuse == Init /\ [][NextReuse]_vars

\* _build_jacobian of a solver of at most MaxBuses buses with the Y-bus of at
\* most MaxEdges branches between them, at zero angles and magnitudes of 1
\* and 2 p.u.
JacobianImpedances == {Complex(1, 0), Complex(0, 1), Complex(1, 1)}

JacobianBranches(n) ==
    {items \in UNION {[1..k -> [from_node : 1..n, to_node : 1..n,
                                 z : JacobianImpedances]] : k \in 0..MaxEdges} :
        /\ \A a \in DOMAIN items : items[a].from_node < items[a].to_node
        /\ \A a, b \in DOMAIN items :
               (/\ items[a].from_node = items[b].from_node
                /\ items[a].to_node = items[b].to_node) => a = b}

InitJacobian ==
    \E buses \in BusDicts \ {<<>>} :
        \E impedances \in JacobianBranches(Len(buses)),
           v \in [DOMAIN buses -> {1, 2}] :
            InitState([y_bus |-> build_admittance_matrix(
                                     [i \in DOMAIN buses |-> i], impedances).value,
                       v |-> v,
                       theta |-> [i \in DOMAIN buses |-> 0]],
                      NewtonRaphsonLoadFlow(buses, DefaultMaxIterations, 0,
                                            [i \in DOMAIN buses |-> 0]))

NextJacobian == BuildJacobian

SpecJacobian == InitJacobian /\ [][NextJacobian]_vars

\* The service on a graph whose edges are cables of 1 km, with the data of
\* two cables (1.6 ohm / km resistive, 3.2 ohm / km reactive: 1 and 2j p.u. at
\* 0.4 kV, 100 MVA) and of the breaker with id 2 (6 kA); no motor has data
CableData ==
    [cables |-> [c \in {"cable-1", "cable-2"} |->
                    IF c = "cable-1" THEN [impedance_r |-> 160, impedance_x |-> 0]
                    ELSE [impedance_r |-> 0, impedance_x |-> 320]],
     power_kw |-> <<>>,
     short_circuit_rating |-> (2 :> 6000)]

NewCableEdge(maxEdges, cable_ids) ==
    \E e \in 1..maxEdges, s \in DOMAIN topology.nodes,
       t \in DOMAIN topology.nodes, c \in cable_ids :
        /\ e \notin DOMAIN topology.edges
        /\ \A x \in 1..(e - 1) : x \in DOMAIN topology.edges
        /\ AddCableEdge(e, CableEdge(s, t, c, 100))

NextData ==
    \/ NewNode({"Source", "Bus", "Breaker"}, {4})
    \/ NewCableEdge(MaxEdges, {"", "cable-1", "cable-2"})
    \/ AnalyzeNetworkWith(CableData)

SpecData == Init /\ [][NextData]_vars

\* The service on a feeder as it is built: every edge is a cable of type
\* cable-1 from a node to a node added after it
NextFeeder ==
    \/ \E t \in {"Source", "Bus", "Breaker"} :
           /\ Len(topology.nodes) < MaxFeederNodes
           /\ AddNode(t, 4)
    \/ \E e \in 1..MaxFeederEdges, s \in DOMAIN topology.nodes,
           t \in DOMAIN topology.nodes :
           /\ s < t
           /\ e \notin DOMAIN topology.edges
           /\ \A x \in 1..(e - 1) : x \in DOMAIN topology.edges
           /\ AddCableEdge(e, CableEdge(s, t, "cable-1", 100))
    \/ AnalyzeNetworkWith(CableData)

SpecFeeder == Init /\ [][NextFeeder]_vars

\* The same with the nameplate data of the motors with ids 2 and 3 (75 kW)
MotorData ==
    [cables |-> CableData.cables,
     power_kw |-> (2 :> 75) @@ (3 :> 75),
     short_circuit_rating |-> <<>>]

NextMotor ==
    \/ NewNode({"Source", "Bus", "Motor"}, {4})
    \/ NewCableEdge(MaxEdges, {"", "cable-1"})
    \/ AnalyzeNetworkWith(MotorData)

SpecMotor == Init /\ [][NextMotor]_vars

\* ------------------------------------------------------------- claims
Nodes == topology.nodes
Edges == topology.edges

SourceNodes == {n \in DOMAIN Nodes : Nodes[n].type = "Source"}
NonSourceNodes == (DOMAIN Nodes) \ SourceNodes

\* Targets of the stored edges that leave a node of S
Successors(S) == {Edges[e].target_id : e \in {x \in DOMAIN Edges : Edges[x].source_id \in S}}

\* Ids with a directed path of at most k stored edges from a Source node
RECURSIVE WithinHops(_)
WithinHops(k) ==
    IF k = 0 THEN SourceNodes
    ELSE WithinHops(k - 1) \cup Successors(WithinHops(k - 1))

MaxHops == Cardinality(NodeIds)

Reachable(n) == n \in WithinHops(MaxHops)

\* Least number of stored edges on a path from a Source node to n
Distance(n) == CHOOSE k \in 0..MaxHops :
                   n \in WithinHops(k) /\ \A j \in 0..(k - 1) : n \notin WithinHops(j)

\* C5: after calculate_network_levels every Source node has level 0, every
\* other node with a path from a source has the least number of edges of
\* such a path as its level, and every other node has level -1.
C5_LevelsAreDistances ==
    lastOp = "calculate_network_levels" =>
        \A n \in DOMAIN Nodes :
            Nodes[n].level = IF n \in SourceNodes THEN 0
                             ELSE IF Reachable(n) THEN Distance(n)
                             ELSE -1

\* Two sources, one fed by the other, and a load nearer to the second one
C5_Witness ==
    /\ lastOp = "calculate_network_levels"
    /\ Cardinality(SourceNodes) = 2
    /\ Successors(SourceNodes) \cap SourceNodes # {}
    /\ \E n \in NonSourceNodes : Nodes[n].level = 1

EdgeCount(s, t) ==
    Cardinality({e \in DOMAIN Edges : Edges[e].source_id = s /\ Edges[e].target_id = t})

AdjacencyConsistent ==
    \A s \in NodeIds, t \in NodeIds :
        /\ Count(topology.adjacency[s], t) = EdgeCount(s, t)
        /\ Count(topology.reverse_adjacency[t], s) = EdgeCount(s, t)
        /\ s \in DOMAIN Nodes => Count(Nodes[s].downstream_nodes, t) = EdgeCount(s, t)
        /\ t \in DOMAIN Nodes => Count(Nodes[t].upstream_nodes, s) = EdgeCount(s, t)

\* C6 as stated: after any sequence of add_node, add_edge and remove_edge
\* calls the stored edges, both adjacency dicts and both endpoints' lists
\* agree on every ordered pair of nodes.
C6_ConsistentAfterAnySequence == AdjacencyConsistent

\* C6 as amended: they agree as long as every add_edge call named two nodes
\* that were already in the graph.
C6_ConsistentWhenEndpointsExist == ~hadDangling => AdjacencyConsistent

\* An edge was removed while a parallel pair of edges stays stored
C6_Witness ==
    /\ ~hadDangling
    /\ lastOp = "remove_edge"
    /\ 1 \notin DOMAIN Edges
    /\ \E s \in NodeIds, t \in NodeIds : EdgeCount(s, t) = 2

BusNodes == {n \in DOMAIN Nodes : IsBusType(Nodes[n].type)}
GroupsOf(n) == {b \in DOMAIN topology.buses : n \in topology.buses[b]}

\* C7: after identify_buses every Bus/Busbar/Switchgear node is in exactly
\* one group, every group holds only such nodes, and the members of a group
\* share one voltage level.
C7_BusesPartitionByVoltage ==
    lastOp = "identify_buses" =>
        /\ \A n \in BusNodes : Cardinality(GroupsOf(n)) = 1
        /\ \A b \in DOMAIN topology.buses :
              /\ topology.buses[b] \subseteq BusNodes
              /\ \A m \in topology.buses[b], n \in topology.buses[b] :
                    Nodes[m].voltage_level = Nodes[n].voltage_level

\* A group of two, next to a bus node of another voltage wired to it
C7_Witness ==
    /\ lastOp = "identify_buses"
    /\ \E b \in DOMAIN topology.buses : Cardinality(topology.buses[b]) = 2
    /\ \E e \in DOMAIN Edges :
          /\ {Edges[e].source_id, Edges[e].target_id} \subseteq BusNodes
          /\ Nodes[Edges[e].source_id].voltage_level # Nodes[Edges[e].target_id].voltage_level

\* C8: a second identify_buses call with no call in between leaves the bus
\* map and every node's bus_name as the first call left them.
C8_IdentifyIdempotent ==
    [][(lastOp = "identify_buses" /\ lastOp' = "identify_buses") =>
          /\ topology'.buses = topology.buses
          /\ \A n \in DOMAIN Nodes : topology'.nodes[n].bus_name = Nodes[n].bus_name]_vars

\* The second of two calls in a row, on a graph with two groups
C8_Witness ==
    /\ identifyCalls = 2
    /\ Cardinality(DOMAIN topology.buses) = 2
    /\ \E n \in BusNodes : Nodes[n].bus_name # None

\* A source (one Source node, one edge leaving it) feeding one simple
\* directed cycle through all the other nodes, three or more of them
SourceFedCycle ==
    /\ Cardinality(SourceNodes) = 1
    /\ Cardinality(NonSourceNodes) >= 3
    /\ DOMAIN Edges = DOMAIN Nodes
    /\ \A e \in DOMAIN Edges : Edges[e].target_id \in NonSourceNodes
    /\ \A n \in NonSourceNodes :
          Cardinality({e \in NonSourceNodes : Edges[e].target_id = n}) = 1
    /\ \A n \in NonSourceNodes : Reachable(n)

\* C9: on a source feeding one simple cycle of three or more nodes,
\* detect_loops returns exactly one loop, whose nodes are those of the cycle.
C9_OneLoopOnSourceFedCycle ==
    (lastOp = "detect_loops" /\ SourceFedCycle) =>
        /\ Len(returned) = 1
        /\ Range(returned[1]) = NonSourceNodes

\* source -> A -> B -> C -> D -> A
C9_Witness ==
    /\ lastOp = "detect_loops"
    /\ SourceFedCycle
    /\ Cardinality(NonSourceNodes) = 4

Connected(n) ==
    \E e \in DOMAIN Edges : Edges[e].source_id = n \/ Edges[e].target_id = n

SourcesDiffer ==
    \E a \in SourceNodes, b \in SourceNodes :
        Nodes[a].voltage_level # Nodes[b].voltage_level

Reports(issue) == issue \in Range(returned)

WarningsReported ==
    /\ \A n \in NonSourceNodes :
          ~Connected(n) => Reports(Issue("Warning", "no_connections", n))
    /\ SourcesDiffer => Reports(Issue("Warning", "sources_at_different_voltages", 0))

\* C10 as stated: in every graph state validate_topology returns an Error
\* for every non-source node without a directed path from a source, a
\* Warning for every non-source node without connections, and a Warning
\* when two sources differ in voltage level.
C10_ValidateReportsUnreachable ==
    lastOp = "validate_topology" =>
        /\ \A n \in NonSourceNodes :
              ~Reachable(n) => Reports(Issue("Error", "not_connected_to_source", n))
        /\ WarningsReported

\* C10 as amended: the Error is returned for every non-source node whose
\* stored level is -1, which is every non-source node without a path from a
\* source once calculate_network_levels has run on the graph as it is; the
\* two Warnings as stated.
C10_ValidateReportsLevels ==
    lastOp = "validate_topology" =>
        /\ \A n \in NonSourceNodes :
              (Nodes[n].level = -1 \/ (levelsFresh /\ ~Reachable(n)))
                  => Reports(Issue("Error", "not_connected_to_source", n))
        /\ WarningsReported

\* Levels computed, then validated: two sources of different voltage and a
\* load wired to neither
C10_Witness ==
    /\ lastOp = "validate_topology"
    /\ levelsFresh
    /\ SourcesDiffer
    /\ \E n \in NonSourceNodes :
          /\ ~Reachable(n)
          /\ Reports(Issue("Error", "not_connected_to_source", n))
          /\ Reports(Issue("Warning", "no_connections", n))

\* C1: solve() ends by returning a LoadFlowResult, never by raising, whatever
\* the buses (one or more) and the iteration limit of the solver.
C1_SolveNeverRaises ==
    (lastOp = "solve" /\ solver.n_buses > 0) => raised = NoError

\* Every stored edge joins two nodes of the graph
EdgesJoinNodes ==
    \A e \in DOMAIN Edges :
        Edges[e].source_id \in DOMAIN Nodes /\ Edges[e].target_id \in DOMAIN Nodes

\* Ids with a directed path of at most k stored edges from a node of S
RECURSIVE HopsFrom(_, _)
HopsFrom(S, k) ==
    IF k = 0 THEN S
    ELSE HopsFrom(S, k - 1) \cup Successors(HopsFrom(S, k - 1))

\* Nodes whose fault current the service calculates: of a short-circuit type
\* and fed by the first source
Analysed ==
    {n \in DOMAIN Nodes :
        /\ Nodes[n].type \in ShortCircuitTypes
        /\ topology.sources # <<>>
        /\ n \in HopsFrom({topology.sources[1]}, MaxHops)}

\* The fault calculation at n divides by zero
ShortCircuitFails(n) == n \in Analysed /\ Nodes[n].voltage_level = 0

\* C2: when the short-circuit calculation fails at a node, analyze_network
\* still returns, and its result has the fault current of every analysed node
\* at which the calculation does not fail.
C2_ShortCircuitFailureIsolated ==
    (/\ lastOp = "analyze_network"
     /\ EdgesJoinNodes
     /\ \E n \in DOMAIN Nodes : ShortCircuitFails(n)) =>
        /\ raised = NoError
        /\ \A m \in Analysed :
              ~ShortCircuitFails(m) => m \in returned.short_circuit_results

\* The load flow of the last analyze_network ran and ended without converging
LoadFlowNotConverged ==
    /\ solved # NotSolved
    /\ solved.raised # NoError \/ ~solved.value.converged

\* C3: when the load flow of a network with a source and a load does not
\* converge, analyze_network returns a result that has the short-circuit
\* results and a load-flow result saying converged = false, also in the
\* summary.
C3_NonConvergenceReported ==
    (/\ lastOp = "analyze_network"
     /\ SourceNodes # {}
     /\ \E n \in DOMAIN Nodes : Nodes[n].type = "Load"
     /\ 0 \notin DOMAIN service.pu_system.voltage_bases
     /\ LoadFlowNotConverged) =>
        /\ raised = NoError
        /\ returned.short_circuit_results = Analysed
        /\ returned.load_flow_result # None
        /\ returned.load_flow_result.converged = FALSE
        /\ returned.summary.load_flow # None
        /\ returned.summary.load_flow.converged = FALSE

\* A graph with nodes and no Source node, or with a node no source reaches
StructurallyBroken ==
    /\ Nodes # <<>>
    /\ EdgesJoinNodes
    /\ 0 \notin DOMAIN service.pu_system.voltage_bases
    /\ SourceNodes = {} \/ \E n \in NonSourceNodes : ~Reachable(n)

\* C4: for a graph with no Source node or with a node no source reaches,
\* analyze_network does not return a NetworkAnalysisResult (which has no
\* field for an error): the call ends with an error instead.
C4_StructuralErrorSurfaced ==
    (lastOp = "analyze_network" /\ StructurallyBroken) => raised # NoError

VoltageBases == service.pu_system.voltage_bases

\* C11: through any sequence of add_voltage_level, get_base and impedance
\* and current conversions on a PerUnitSystem, voltage_bases holds one base
\* for each voltage level used and for nothing else, the base under key v has
\* voltage_kv = v and power_mva = the system's base_mva, and a base once
\* stored stays as it is.
C11_OneBasePerVoltageLevel ==
    /\ [](/\ DOMAIN VoltageBases = used
          /\ \A v \in DOMAIN VoltageBases :
                /\ VoltageBases[v].voltage_kv = v
                /\ VoltageBases[v].power_mva = service.pu_system.base_mva)
    /\ [][lastOp' # "IntegratedCalculationService" =>
             \A v \in DOMAIN VoltageBases :
                /\ v \in DOMAIN VoltageBases'
                /\ VoltageBases'[v] = VoltageBases[v]]_vars

\* A system on a base power other than the default, holding three bases, one
\* of them for voltage 0, after a conversion at a level it already had raised
C11_Witness ==
    /\ service.pu_system.base_mva # DefaultBaseMva
    /\ Cardinality(DOMAIN VoltageBases) = 3
    /\ lastOp = "current_to_pu"
    /\ raised = "ZeroDivisionError"

\* What a service made for this call, on the same base power, gives for the
\* graph and the arguments of the last analyze_network
FreshAnalysis ==
    analyze_network(IntegratedCalculationService(service.base_mva), topology,
                    args.run_load_flow)

\* C12: analyze_network on a service that has analysed other graphs ends as
\* it does on a fresh service: the same exception or the same result,
\* per_unit_system voltage bases included.
C12_ResultIndependentOfHistory ==
    lastOp = "analyze_network" =>
        /\ raised = FreshAnalysis.raised
        /\ returned = FreshAnalysis.value

Ybus == returned
YbusBuilt == lastOp = "build_admittance_matrix" /\ raised = NoError

RECURSIVE CSum(_, _)
CSum(row, k) == IF k = 0 THEN CZero ELSE CAdd(CSum(row, k - 1), row[k])

\* C14: each row of the matrix returned by build_admittance_matrix sums to
\* zero, whatever the node list and the impedance dict: with both (i,j) and
\* (j,i) as keys, with a key (i,i), with an impedance of zero.
C14_RowsSumToZero ==
    YbusBuilt => \A i \in DOMAIN Ybus : CSum(Ybus[i], Len(Ybus[i])) = CZero

\* A matrix built from the branches (i,j) and (j,i), with a non-zero entry
C14_Witness ==
    /\ YbusBuilt
    /\ Len(args.impedances) = 2
    /\ args.impedances[1].from_node = args.impedances[2].to_node
    /\ args.impedances[1].to_node = args.impedances[2].from_node
    /\ args.impedances[1].from_node # args.impedances[1].to_node
    /\ args.impedances[1].z # args.impedances[2].z
    /\ \E i \in DOMAIN Ybus : Ybus[i][i] # CZero

\* C15 as stated: the matrix is Hermitian-symmetric, entry (i,j) is the
\* complex conjugate of entry (j,i) for all i, j.
C15_Hermitian ==
    YbusBuilt => \A i, j \in DOMAIN Ybus : Ybus[i][j] = Conj(Ybus[j][i])

\* C15: the matrix returned by build_admittance_matrix is symmetric, entry
\* (i,j) equals entry (j,i) for all i, j; when every impedance is a pure
\* resistance its entries are real and it is Hermitian-symmetric as well.
C15_Symmetric ==
    YbusBuilt =>
        /\ \A i, j \in DOMAIN Ybus : Ybus[i][j] = Ybus[j][i]
        /\ (\A k \in DOMAIN args.impedances : args.impedances[k].z.im = 0)
               => \A i, j \in DOMAIN Ybus : Ybus[i][j] = Conj(Ybus[j][i])

\* A matrix with an entry off the diagonal that has a reactive part, built
\* from one branch given in one direction only
C15_Witness ==
    /\ YbusBuilt
    /\ Len(args.impedances) = 1
    /\ \E i, j \in DOMAIN Ybus : i # j /\ Ybus[i][j].im # 0

\* C16: validate_breaker_rating compares the rating with 1.10 x the fault
\* current, and for every fault current above a positive rating it returns
\* is_adequate = false and a margin_percent that is strictly negative.
C16_UndersizedHasNegativeMargin ==
    /\ (lastOp = "validate_breaker_rating" /\ raised = NoError) =>
           returned.is_adequate \in
               is_adequate_outcomes(args.fault_current_ka, args.breaker_rating_ka)
    /\ (/\ lastOp = "validate_breaker_rating"
        /\ args.breaker_rating_ka > 0
        /\ args.fault_current_ka > args.breaker_rating_ka) =>
           /\ raised = NoError
           /\ returned.is_adequate = FALSE
           /\ returned.margin_percent < 0

\* C17: solve() called again on buses that hold a converged solution returns
\* at once, with iterations = 0 and the bus voltages it found there.
C17_ResolveReturnsAtOnce ==
    (lastOp = "solve" /\ args.held_converged) =>
        /\ raised = NoError
        /\ returned.iterations = 0
        /\ \A i \in DOMAIN solver.calculated :
               solver.calculated[i].voltage = args.calculated[i].voltage

\* C18: in every LoadFlowResult returned with converged = true,
\* total_generation_p equals total_load_p plus total_losses_p.
C18_PowerBalance ==
    (lastOp = "solve" /\ raised = NoError /\ returned.converged) =>
        returned.total_generation_p =
            returned.total_load_p + returned.total_losses_p

\* The converged result of a slack bus and two PQ load buses, with losses
C18_Witness ==
    /\ lastOp = "solve"
    /\ raised = NoError
    /\ returned.converged
    /\ solver.buses = <<"SLACK", "PQ", "PQ">>
    /\ returned.iterations > 1
    /\ returned.total_load_p = 8
    /\ returned.total_losses_p > 0

FaultCalculated == lastOp = "calculate_three_phase_fault"
\* Source plus path
TotalImpedance == CAdd(args.params.source_impedance, args.fault_impedance_pu)
EarlierTotalImpedance ==
    CAdd(args.params.source_impedance, args.earlier.fault_impedance_pu)

\* Two calls on one calculator that both returned, the later with the total
\* impedance of strictly larger magnitude
LargerImpedanceThanEarlier ==
    /\ FaultCalculated
    /\ args.earlier # None
    /\ raised = NoError
    /\ args.earlier.raised = NoError
    /\ NormSquare(TotalImpedance) > NormSquare(EarlierTotalImpedance)

C20_CurrentPositiveAndPower ==
    (/\ FaultCalculated
     /\ args.params.voltage_kv # 0
     /\ TotalImpedance # CZero) =>
        /\ raised = NoError
        /\ returned.i_k3_initial.sign = 1
        /\ returned.i_k3_initial.square.num > 0
        /\ returned.s_k3 =
               RootTimes(Ratio(3 * args.params.voltage_kv * args.params.voltage_kv,
                               100),
                         returned.i_k3_initial)

\* The fault at 0.4 kV behind the source 0.20 + 2.0j p.u. on 100 MVA with
\* c = 1.1: i_k3_initial = sqrt(121 / 19392) = 0.0790 kA
C20_Witness ==
    /\ FaultCalculated
    /\ args.params = ShortCircuitParameters(4, 100, Complex(4, 40), 11)
    /\ args.fault_impedance_pu = CZero
    /\ raised = NoError
    /\ returned.i_k3_initial = Root(1, Ratio(121, 19392))

\* C21: impedance_to_pu(impedance_to_ohms(z, V), V) is z for every complex
\* impedance z and every voltage level V > 0, in a fresh PerUnitSystem and
\* after other voltage levels have been registered.
C21_PerUnitRoundTrip ==
    (/\ lastOp = "impedance_to_pu"
     /\ args.origin # None
     /\ args.voltage_kv > 0) =>
        /\ raised = NoError
        /\ returned = args.origin

\* A round trip of 3 - 4j at 11 kV on a 50 MVA base, with 0.4 kV and 33 kV
\* registered as well
C21_Witness ==
    /\ lastOp = "impedance_to_pu"
    /\ raised = NoError
    /\ args.origin = Rational(Complex(3, -4))
    /\ args.impedance # args.origin
    /\ args.voltage_kv = 110
    /\ service.base_mva = 50
    /\ DOMAIN VoltageBases = {4, 110, 330}

\* C22: convert_cable_impedance_to_pu on a cable of length zero returns the
\* zero impedance and raises nothing, for every R and X per km and every
\* voltage V > 0.
C22_ZeroLengthCable ==
    (/\ lastOp = "convert_cable_impedance_to_pu"
     /\ args.length_km = 0
     /\ args.voltage_kv > 0) =>
        /\ raised = NoError
        /\ returned = Rational(CZero)

\* A cable of length zero with R and X per km that are not zero, converted
C22_Witness ==
    /\ lastOp = "convert_cable_impedance_to_pu"
    /\ args.length_km = 0
    /\ args.voltage_kv = 4
    /\ args.resistance_per_km = 15
    /\ args.reactance_per_km = 39
    /\ returned = Rational(CZero)

\* C23: detect_loops reports a loop for every edge u -> v it examines while v
\* is still on the path of the depth-first traversal, the loop being the path
\* from v to u; no such edge is left out, whatever the length of the cycle.
C23_EveryBackEdgeReported ==
    lastOp = "detect_loops" =>
        /\ Len(returned) = Len(edges_to_path(topology))
        /\ \A k \in DOMAIN returned :
               Range(returned[k]) = Range(edges_to_path(topology)[k])

\* The analysis with component data has returned a result
DataAnalysed ==
    lastOp = "analyze_network with component_data" /\ raised = NoError

\* Least number of stored edges on a path from node s to node n
HopsBetween(s, n) ==
    CHOOSE k \in 0..MaxHops :
        n \in HopsFrom({s}, k) /\ \A j \in 0..(k - 1) : n \notin HopsFrom({s}, j)

\* The sources with a path to n from which n is nearest
NearestSources(n) ==
    {s \in SourceNodes :
        /\ n \in HopsFrom({s}, MaxHops)
        /\ \A r \in SourceNodes :
               n \in HopsFrom({r}, MaxHops) => HopsBetween(s, n) <= HopsBetween(r, n)}

\* The per-unit impedance of the cable of a stored edge, zero without data
EdgeImpedance(e) ==
    IF Edges[e].cable_id \in DOMAIN args.component_data.cables
    THEN LET cable == args.component_data.cables[Edges[e].cable_id]
         IN  Whole(convert_cable_impedance_to_pu(
                       cable.impedance_r, cable.impedance_x, Edges[e].length,
                       Nodes[Edges[e].source_id].voltage_level,
                       service.base_mva).value)
    ELSE CZero

\* The sums of the impedances of the edges along a path of nodes, one stored
\* edge for every hop from position i on
RECURSIVE PathSums(_, _)
PathSums(path, i) ==
    IF i >= Len(path) THEN {CZero}
    ELSE {CAdd(EdgeImpedance(e), rest) :
             e \in {x \in DOMAIN Edges : /\ Edges[x].source_id = path[i]
                                         /\ Edges[x].target_id = path[i + 1]},
             rest \in PathSums(path, i + 1)}

\* The result of a fault at n behind the fault impedance z, without motors
FaultBehind(n, z) ==
    calculate_three_phase_fault(
        ShortCircuitParameters(Nodes[n].voltage_level, service.base_mva,
                               Complex(1, 10), 11),
        InCalculatorUnits(z)).value

\* C24: every node of type Bus, Busbar, Load or Motor with a path from at
\* least one source has a short-circuit result, and its fault impedance is
\* the sum of the per-unit impedances along the path from the nearest
\* source, also with several sources.
C24_FaultAtEveryReachableNode ==
    DataAnalysed =>
        \A n \in DOMAIN Nodes :
            (Nodes[n].type \in ShortCircuitTypes /\ Reachable(n)) =>
                /\ n \in DOMAIN returned.short_circuit_results
                /\ \E s \in NearestSources(n) :
                       \E z \in PathSums(find_path(topology, s, n), 1) :
                           returned.short_circuit_results[n] = FaultBehind(n, z)

\* The nodes downstream of b: those with a path of stored edges from b
Downstream(b) == HopsFrom(Successors({b}), MaxHops) \ {b}

\* The downstream nodes of b that have a short-circuit result
DownstreamResults(b) == Downstream(b) \cap DOMAIN returned.short_circuit_results

\* x is the largest initial fault current of the downstream results of b
LargestDownstream(b, x) ==
    /\ \E d \in DownstreamResults(b) :
           returned.short_circuit_results[d].i_k3_initial = x
    /\ \A d \in DownstreamResults(b) :
           ~RootLess(x, returned.short_circuit_results[d].i_k3_initial)

\* The rating of breaker b: its short_circuit_rating, 10 kA without data
RatingOf(b) ==
    IF b \in DOMAIN args.component_data.short_circuit_rating
    THEN args.component_data.short_circuit_rating[b]
    ELSE 10000

BreakerNodes == {b \in DOMAIN Nodes : Nodes[b].type = "Breaker"}

BranchesBetween(i, j) ==
    {e \in DOMAIN Edges :
        /\ EdgeImpedance(e) # CZero
        /\ \/ Edges[e].source_id = i /\ Edges[e].target_id = j
           \/ Edges[e].source_id = j /\ Edges[e].target_id = i}

\* The sum of 1 / Z over a set of branches
RECURSIVE AdmittanceSum(_)
AdmittanceSum(S) ==
    IF S = {} THEN CZero
    ELSE LET e == CHOOSE x \in S : TRUE
         IN  CAdd(Reciprocal(EdgeImpedance(e)), AdmittanceSum(S \ {e}))

\* The branches that join i and another node
BranchesAt(i) == UNION {BranchesBetween(i, j) : j \in (DOMAIN Nodes) \ {i}}

\* C26: with several branches between the same two nodes i and j, entry
\* (i, j) of the Y-bus of the result is the negated sum of 1 / Z over all of
\* them, and the diagonal entries of i and j include every one of them: they
\* are the sums of 1 / Z over all branches at i and at j.
C26_ParallelBranchesAdd ==
    DataAnalysed =>
        \A i, j \in DOMAIN Nodes :
            (i # j /\ Cardinality(BranchesBetween(i, j)) >= 2) =>
                /\ returned.y_bus_matrix[i][j] =
                       CSub(CZero, AdmittanceSum(BranchesBetween(i, j)))
                /\ returned.y_bus_matrix[i][i] = AdmittanceSum(BranchesAt(i))
                /\ returned.y_bus_matrix[j][j] = AdmittanceSum(BranchesAt(j))

\* The Motor nodes with nameplate power data
MotorsWithData ==
    {m \in DOMAIN Nodes :
        Nodes[m].type = "Motor" /\ m \in DOMAIN args.component_data.power_kw}

\* The list of the motors of M, in the order of the nodes from node i on
RECURSIVE MotorList(_, _)
MotorList(M, i) ==
    IF i > Len(Nodes) THEN <<>>
    ELSE (IF i \in M
          THEN <<[power_kw |-> args.component_data.power_kw[i],
                  voltage_kv |-> Nodes[i].voltage_level]>>
          ELSE <<>>) \o MotorList(M, i + 1)

\* The result at n has the motor contribution of the motors of M: none when
\* M is empty, else their impedances in parallel
ContributionOf(n, M) ==
    LET result == returned.short_circuit_results[n]
    IN  IF M = {} THEN "motor_contribution" \notin DOMAIN result
        ELSE /\ "motor_contribution" \in DOMAIN result
             /\ result.motor_contribution =
                    calculate_motor_contribution(MotorList(M, 1),
                                                 service.base_mva).value

\* C27: the result at a fault node includes motor contribution exactly when
\* a Motor node downstream of it has nameplate power data, and it is the
\* parallel combination of those downstream motors only (with or without the
\* fault node itself, when that is a motor with data); a fault node with no
\* downstream motor gets the network impedance alone.
C27_DownstreamMotorsContribute ==
    DataAnalysed =>
        \A n \in DOMAIN returned.short_circuit_results :
            \/ ContributionOf(n, Downstream(n) \cap MotorsWithData)
            \/ ContributionOf(n, (Downstream(n) \cup {n}) \cap MotorsWithData)

\* The last solve() returned a result; the buses of the result are the
\* solver's
Solved == lastOp = "solve" /\ raised = NoError

\* v and theta of bus i are those the claim lets it have: a SLACK bus its
\* specified magnitude and angle, a PV bus its specified magnitude
KeepsSpecified(i, v, theta) ==
    /\ solver.buses[i] = "SLACK" =>
           /\ v = StateValue("v_specified", <<>>)
           /\ theta = StateValue("theta_specified", <<>>)
    /\ solver.buses[i] = "PV" => v = StateValue("v_specified", <<>>)

\* C28: in every iteration of solve() and in the result every slack bus has
\* v_magnitude = v_specified and v_angle = theta_specified and every PV bus
\* has v_magnitude = v_specified: an iteration adds a correction only to the
\* angles of the buses that are not SLACK and to the magnitudes of PQ buses.
C28_SpecifiedValuesKept ==
    Solved =>
        \A i \in DOMAIN solver.buses :
            /\ KeepsSpecified(i, solver.calculated[i].v_magnitude,
                              solver.calculated[i].v_angle)
            /\ \A k \in 0..solver.calculated[i].voltage :
                   KeepsSpecified(i, state_after(solver, k)[i].v,
                                  state_after(solver, k)[i].theta)

\* A solve() of two passes and more on a SLACK, a PV and a PQ bus: the PQ bus
\* has its magnitude and the PV bus its angle corrected in each
C28_Witness ==
    /\ Solved
    /\ \E i, j, k \in DOMAIN solver.buses :
           /\ solver.buses[i] = "SLACK"
           /\ solver.buses[j] = "PV"
           /\ solver.buses[k] = "PQ"
           /\ Len(solver.calculated[k].v_magnitude.added) >= 2
           /\ Len(solver.calculated[j].v_angle.added) >= 2
           /\ solver.calculated[j].v_magnitude = StateValue("v_specified", <<>>)
           /\ solver.calculated[i].v_angle = StateValue("theta_specified", <<>>)

\* The iterate that the result reports: the number of _update_state calls
\* that made the v_magnitude and v_angle stored in the buses
ReportedIterate(i) == Len(solver.calculated[i].v_angle.added)

\* C29: in every LoadFlowResult, converged or not, each bus's p_calculated
\* and q_calculated, and max_mismatch with them, are computed from the very
\* v_magnitude and v_angle that the result reports for the buses: the
\* iterate the powers were calculated from is the one stored.
C29_ConsistentSnapshot ==
    Solved =>
        \A i \in DOMAIN solver.buses :
            /\ solver.calculated[i].calculated_from = solver.calculated[i].voltage
            /\ solver.buses[i] # "SLACK" =>
                   solver.calculated[i].calculated_from = ReportedIterate(i)

\* The buses of the given types, in dict order
BusesOf(types) == {i \in DOMAIN solver.buses : solver.buses[i] \in types}

\* The k-th bus of the set S, in dict order
Nth(S, k) == CHOOSE i \in S : Cardinality({j \in S : j <= i}) = k

\* A sum of whole numbers over the buses of S
RECURSIVE SumBuses(_, _)
SumBuses(S, f) ==
    IF S = {} THEN 0
    ELSE LET i == CHOOSE x \in S : TRUE
         IN  f[i] + SumBuses(S \ {i}, f)

\* The partial derivatives of P and Q of bus i at zero angles, with G + jB
\* the Y-bus and V the magnitudes:
\*   dP_i/dtheta_j = -V_i V_j B_ij,  dP_i/dtheta_i = sum of V_i V_j B_ij, j # i
\*   dP_i/dV_j = V_i G_ij,           dP_i/dV_i = 2 V_i G_ii + sum of V_j G_ij
\*   dQ_i/dtheta_j = -V_i V_j G_ij,  dQ_i/dtheta_i = sum of V_i V_j G_ij, j # i
\*   dQ_i/dV_j = -V_i B_ij,          dQ_i/dV_i = -2 V_i B_ii - sum of V_j B_ij
Others(i) == (DOMAIN solver.buses) \ {i}
G(i, j) == args.y_bus[i][j].re
B(i, j) == args.y_bus[i][j].im
V(i) == args.v[i]

dP_dtheta(i, j) ==
    IF i # j THEN -(V(i) * V(j) * B(i, j))
    ELSE SumBuses(Others(i), [k \in Others(i) |-> V(i) * V(k) * B(i, k)])

dP_dV(i, j) ==
    IF i # j THEN V(i) * G(i, j)
    ELSE 2 * V(i) * G(i, i)
         + SumBuses(Others(i), [k \in Others(i) |-> V(k) * G(i, k)])

dQ_dtheta(i, j) ==
    IF i # j THEN -(V(i) * V(j) * G(i, j))
    ELSE SumBuses(Others(i), [k \in Others(i) |-> V(i) * V(k) * G(i, k)])

dQ_dV(i, j) ==
    IF i # j THEN -(V(i) * B(i, j))
    ELSE -(2 * V(i) * B(i, i))
         - SumBuses(Others(i), [k \in Others(i) |-> V(k) * B(i, k)])

\* The matrix of the partial derivatives: a row of P for every bus that is
\* not SLACK, then a row of Q for every PQ bus; a column of theta for every
\* bus that is not SLACK, then a column of V for every PQ bus
PartialDerivatives ==
    LET n_theta == Cardinality(BusesOf({"PV", "PQ"}))
        size == n_theta + Cardinality(BusesOf({"PQ"}))
        Angle(k) == Nth(BusesOf({"PV", "PQ"}), k)
        Magnitude(k) == Nth(BusesOf({"PQ"}), k - n_theta)
    IN  [r \in 1..size |->
            [c \in 1..size |->
                IF r <= n_theta
                THEN IF c <= n_theta THEN dP_dtheta(Angle(r), Angle(c))
                     ELSE dP_dV(Angle(r), Magnitude(c))
                ELSE IF c <= n_theta THEN dQ_dtheta(Magnitude(r), Angle(c))
                     ELSE dQ_dV(Magnitude(r), Magnitude(c))]]

\* C30: the Jacobian that _build_jacobian gives a solver with one slack bus
\* is the matrix of the partial derivatives of P and Q with respect to the
\* angles of the buses that are not SLACK and the magnitudes of the PQ buses,
\* at the voltages, angles and Y-bus of the call.
C30_JacobianIsDerivative ==
    (lastOp = "_build_jacobian" /\ Cardinality(BusesOf({"SLACK"})) = 1) =>
        returned = PartialDerivatives

====
